---- MODULE Spec2Model ----
(***************************************************************************)
(* A state-machine model of the Bifrost Hue-bridge emulator: the resource  *)
(* store (src/src/resource.rs), the Home Assistant adapter                 *)
(* (src/src/backend/hass), the event-stream handler                        *)
(* (src/src/routes/eventstream.rs) and the routes that mutate the store.   *)
(*                                                                         *)
(* Several specifications share the variables below; each one drives the   *)
(* component its claims are about and leaves the others at their initial   *)
(* values:                                                                 *)
(*   SpecStore   the store operations add / update / delete / reset       *)
(*   Spec        the Home Assistant adapter and the UI routes              *)
(*   SpecStream  the SSE connection handler against event producers       *)
(*   SpecLoop    the adapter's run loop and its calls to Home Assistant    *)
(*   SpecScene   scene numbering (get_next_scene_id)                       *)
(***************************************************************************)
EXTENDS Integers, Sequences, FiniteSets, TLC

VARIABLES
    res,        \* Resources.state.res : rid -> Resource (domain = ids present)
    aux,        \* Resources.state.aux : rid -> AuxData (the sidecar map)
    emitted,    \* blocks handed to hue_event_stream.hue_event by the last handler
    woke,       \* state_updates.notify_one() was called by the last handler
    last,       \* the last handler that ran: its name, the link it was given, its result
    evCount,    \* HueEventStream: the number of events sent so far (ids 1..evCount)
    sse,        \* one event-stream connection (get_clip_v2) and what it has delivered
    ui,         \* HassUiState: config (rooms, entity preferences), entities, sync
    rt,         \* HassRuntimeState: the enabled flag and whether a token is stored
    hass,       \* HassBackend: its maps, its client's token, its websocket, its loop
    queue,      \* the backend request channel (BackendRequest values in flight)
    uilog,      \* the entries the last handler pushed to the UI log
    hacalls,    \* the requests the last handler made to Home Assistant
    ha,         \* Home Assistant: the entity states and areas it reports
    clock,      \* the wall clock that Utc::now() reads
    bus,        \* Resources.backend_updates: every request sent on the broadcast channel
    mutex,      \* who holds the Resource Store mutex (Arc<Mutex<Resources>>)
    task        \* each adapter's run loop: its receiver, the handler it is in

storeVars == <<res, aux, emitted, woke, last>>
streamVars == <<evCount, sse>>
adapterVars == <<ui, rt, hass, queue, uilog, hacalls, ha, clock>>
busVars == <<bus, mutex, task>>
vars == <<storeVars, streamVars, adapterVars, busVars>>

\* HashMap::new()
EmptyMap == [x \in {} |-> x]

MapInsert(m, k, v) == (k :> v) @@ [x \in DOMAIN m \ {k} |-> m[x]]
MapRemove(m, k) == [x \in DOMAIN m \ {k} |-> m[x]]

DEFAULT_ROOM_ID == "home-assistant"

\* HassUiConfig::default(): only the default room, new entities hidden,
\* areas synced to rooms.  `rooms` holds the room ids; source_area maps the
\* rooms that were created for a Home Assistant area to that area.
DefaultUiConfig ==
    [rooms |-> {DEFAULT_ROOM_ID}, entity_preferences |-> EmptyMap,
     include_unavailable |-> TRUE, default_add_new_devices_to_hue |-> FALSE,
     sync_hass_areas_to_rooms |-> TRUE, source_area |-> EmptyMap,
     ignored_area_names |-> {}]

\* The components a specification does not drive stay as constructed.
StreamIdle == evCount = 0 /\ sse = [pc |-> "idle"]

\* The adapters of the bridge, and a run loop that has not started.
Adapters == {"hass", "z2m"}

TaskDown ==
    [alive |-> FALSE, first |-> 0, next |-> 0, req |-> 0, prog |-> <<>>, waiting |-> FALSE,
     trace |-> <<>>, err |-> "none"]

BusIdle == bus = <<>> /\ mutex = "free" /\ task = [a \in Adapters |-> TaskDown]

\* HassBackend::new and Service::start with a stored token and the runtime
\* flag enabled: the client holds the token, nothing is imported yet.
AdapterIdle ==
    /\ ui = [config |-> DefaultUiConfig, entities |-> EmptyMap, sync |-> "idle"]
    /\ rt = [enabled |-> TRUE, token |-> TRUE]
    /\ hass = [pc |-> "start", entity_map |-> EmptyMap, light_map |-> EmptyMap,
               device_map |-> EmptyMap, room_map |-> EmptyMap,
               sensor_map |-> EmptyMap, scene_map |-> EmptyMap,
               token |-> TRUE, ws |-> FALSE]
    /\ queue = <<>>
    /\ uilog = <<>>
    /\ hacalls = <<>>
    /\ ha = [states |-> {}, areas |-> EmptyMap]
    /\ clock = 0

(***************************************************************************)
(* Links and deterministic ids (crates/hue/src/api/resource.rs).  A rid is *)
(* the tuple of the type tag and the seed that were hashed into the UUIDv5, *)
(* so two ids are equal exactly when type and seed are.                    *)
(***************************************************************************)
LinkTo(rtype, rid) == [rid |-> rid, rtype |-> rtype]

\* RType::deterministic: the id is a function of the type tag and the seed.
\* A seed is a tuple of strings; seeding with another id passes that id.
Deterministic(rtype, seed) == LinkTo(rtype, <<rtype>> \o seed)

(***************************************************************************)
(* Resource variants.  An Option<T> field is a set with at most one        *)
(* element.  Only the fields that the modelled code reads or writes are    *)
(* kept.                                                                   *)
(***************************************************************************)
OwnedTypes == {"bridge", "grouped_light", "light", "zigbee_connectivity",
               "zigbee_device_discovery", "internet_connectivity",
               "entertainment", "motion", "contact"}

\* Resource::owner(): the owner link of the variants that carry one.
Owner(obj) == IF obj.rtype \in OwnedTypes THEN {obj.owner} ELSE {}

\* hue::diff::event_update_diff: the keys whose serialized value changed.
EventUpdateDiff(before, after) ==
    {f \in DOMAIN after : before[f] # after[f]}

\* EventBlock::add / EventBlock::update / EventBlock::delete
AddEvent(rid, obj) ==
    [kind |-> "add", rid |-> rid, rtype |-> obj.rtype, data |-> {obj}]
UpdateEvent(rid, after, delta) ==
    [kind |-> "update", rid |-> rid, rtype |-> after.rtype,
     data |-> {[f \in delta |-> after[f]]}]
DeleteEvent(link) ==
    [kind |-> "delete", rid |-> link.rid, rtype |-> link.rtype, data |-> {}]

RECURSIVE SetToSeq(_)
SetToSeq(s) ==
    IF s = {} THEN <<>>
    ELSE LET x == CHOOSE y \in s : TRUE IN <<x>> \o SetToSeq(s \ {x})

(***************************************************************************)
(* Store operations.  A handler threads a record                           *)
(*   S = [res, aux, ev, woke, err]                                         *)
(* through the calls it makes: res and aux are the maps, ev the event      *)
(* blocks sent so far, woke whether the persister was notified, err the    *)
(* first error propagated with `?` ("ok" while there is none).             *)
(***************************************************************************)
StBegin(r, a) == [res |-> r, aux |-> a, ev |-> <<>>, woke |-> FALSE, err |-> "ok"]

StOk(S) == S.err = "ok"

\* Resources::get::<T>(link).is_ok()
Present(r, link) == link.rid \in DOMAIN r /\ r[link.rid].rtype = link.rtype

\* `let _ = op` / `op.is_ok()`: the error of op is dropped.
StIgnore(S) == [S EXCEPT !.err = "ok"]

StFail(S, e) == [S EXCEPT !.err = e]

\* try_update without the `if let Some(delta)` test: an event per call.
StCommitUpdateAlways(S, id, after) ==
    [S EXCEPT !.res[id] = after,
              !.ev = Append(@, UpdateEvent(id, after,
                                           EventUpdateDiff(S.res[id], after))),
              !.woke = TRUE]

\* The tail of try_update once the closure has produced `after`.
StCommitUpdate(S, id, after) ==
    LET before == S.res[id]
        delta == EventUpdateDiff(before, after)
    IN  IF delta # {}
        THEN [S EXCEPT !.res[id] = after,
                       !.ev = Append(@, UpdateEvent(id, after, delta)),
                       !.woke = TRUE]
        ELSE [S EXCEPT !.res[id] = after]

\* The closures of Resources::delete: drop `link` from one resource.
PurgeLink(o, link) ==
    CASE o.rtype = "device" -> [o EXCEPT !.services = @ \ {link}]
      [] o.rtype = "entertainment_configuration" ->
            [o EXCEPT !.locations = @ \ {link},
                      !.channels = {c \in @ : link \notin c},
                      !.light_services = @ \ {link}]
      [] OTHER -> [o EXCEPT !.children = @ \ {link}, !.services = @ \ {link}]

\* apply_light_state: for HassEntityKind::Light a control field is present
\* exactly when the capability is set, and a missing value keeps the stored
\* one or takes the default; for the other kinds no control field is present.
ApplyLightState(light, imported) ==
    LET field(old, cap, value) ==
            IF imported.kind # "light" \/ ~cap THEN {}
            ELSE IF value # {} THEN {"reported"}
            ELSE IF old = {} THEN {"default"}
            ELSE old
    IN  [light EXCEPT
            !.on = imported.on,
            !.dimming = field(@, imported.capabilities.supports_brightness,
                              imported.brightness),
            !.color = field(@, imported.capabilities.supports_color,
                            imported.xy_color),
            !.color_temperature = field(@, imported.capabilities.supports_color_temp,
                                        imported.color_temp)]

\* The closures that callers pass to update / update_by_type, as data:
\* c.f names the closure, the other fields are the values it captured.
Apply(c, o) ==
    CASE c.f = "purge" -> PurgeLink(o, c.link)
      [] c.f = "extend_children" -> [o EXCEPT !.children = @ \cup c.links]
      [] c.f = "remove_children" -> [o EXCEPT !.children = @ \ c.links]
      [] c.f = "set_children" -> [o EXCEPT !.children = c.links]
      [] c.f = "set_services" -> [o EXCEPT !.services = c.links]
      [] c.f = "extend_services" -> [o EXCEPT !.services = @ \cup c.links]
      [] c.f = "apply_light_state" -> ApplyLightState(o, c.imported)
      [] c.f = "set_grouped" -> [o EXCEPT !.on = c.on, !.dimming = c.dimming]
      [] c.f = "set_motion" -> [o EXCEPT !.enabled = c.enabled, !.report = c.report]
      [] c.f = "set_enabled" -> [o EXCEPT !.enabled = c.enabled]
      [] c.f = "scene_recall" -> [o EXCEPT !.status = {"static"}]
      [] c.f = "scene_status" -> [o EXCEPT !.status = {c.active}]
      [] c.f = "start_streaming" -> [o EXCEPT !.streaming = TRUE]
      [] c.f = "stop_streaming" -> [o EXCEPT !.streaming = FALSE]

\* Resources::try_update / Resources::update on variant T with closure c.
StTryUpdate(S, id, T, c) ==
    IF ~StOk(S) THEN S
    ELSE IF id \notin DOMAIN S.res THEN StFail(S, "NotFound")
    ELSE IF S.res[id].rtype # T THEN StFail(S, "WrongType")
    ELSE StCommitUpdate(S, id, Apply(c, S.res[id]))

\* Resources::update_by_type: try_update on every id whose variant is T.
RECURSIVE StUpdateEach(_, _, _)
StUpdateEach(S, ids, c) ==
    IF ids = <<>> \/ ~StOk(S) THEN S
    ELSE StUpdateEach(StCommitUpdate(S, Head(ids), Apply(c, S.res[Head(ids)])),
                      Tail(ids), c)

StUpdateByType(S, T, c) ==
    IF ~StOk(S) THEN S
    ELSE StUpdateEach(S, SetToSeq({id \in DOMAIN S.res : S.res[id].rtype = T}), c)

\* add without the contains_key test: the new value replaces the stored one.
StAddOverwrite(S, link, obj) ==
    IF ~StOk(S) THEN S
    ELSE [S EXCEPT !.res = (link.rid :> obj) @@ @,
                   !.woke = TRUE,
                   !.ev = Append(@, AddEvent(link.rid, obj))]

\* Resources::add
StAdd(S, link, obj) ==
    IF ~StOk(S) THEN S
    ELSE IF link.rid \in DOMAIN S.res THEN S
    ELSE [S EXCEPT !.res = (link.rid :> obj) @@ @,
                   !.woke = TRUE,
                   !.ev = Append(@, AddEvent(link.rid, obj))]

\* The five update_by_type passes at the head of Resources::delete.
PurgedTypes == <<"bridge_home", "device", "entertainment_configuration", "room", "zone">>

RECURSIVE StPurge(_, _, _)
StPurge(S, link, types) ==
    IF types = <<>> THEN S
    ELSE StPurge(StUpdateByType(S, Head(types), [f |-> "purge", link |-> link]),
                 link, Tail(types))

\* delete without the cascade: nothing counts as owned.
OwnedByNone(r, link) == {}

\* The links of the resources whose owner is `link`.
OwnedBy(r, link) ==
    {LinkTo(r[rid].rtype, rid) : rid \in {x \in DOMAIN r : link \in Owner(r[x])}}

RECURSIVE StDelete(_, _)
RECURSIVE StDeleteAll(_, _)

\* Resources::delete
StDelete(S, link) ==
    IF ~StOk(S) THEN S
    ELSE LET S1 == StPurge(S, link, PurgedTypes)
         IN  IF link.rid \notin DOMAIN S1.res THEN StFail(S1, "NotFound")
             ELSE LET S2 == [S1 EXCEPT !.res = [x \in DOMAIN @ \ {link.rid} |-> @[x]]]
                      S3 == StDeleteAll(S2, SetToSeq(OwnedBy(S2.res, link)))
                  IN  IF ~StOk(S3) THEN S3
                      ELSE [S3 EXCEPT !.woke = TRUE,
                                      !.ev = Append(@, DeleteEvent(link))]

\* `for owned in owned_by { self.delete(&owned)?; }`
StDeleteAll(S, links) ==
    IF links = <<>> \/ ~StOk(S) THEN S
    ELSE StDeleteAll(StDelete(S, Head(links)), Tail(links))

(***************************************************************************)
(* The core bridge resources (Resources::add_bridge).                      *)
(***************************************************************************)
BridgeId == <<"BID">>

link_bridge == Deterministic("bridge", BridgeId)
link_bridge_home == Deterministic("bridge_home", BridgeId \o <<"HOME">>)
link_bridge_dev == Deterministic("device", link_bridge.rid)
link_bridge_home_dev == Deterministic("device", link_bridge_home.rid)
link_bridge_ent == Deterministic("entertainment", link_bridge.rid)
link_zbdd == Deterministic("zigbee_device_discovery", link_bridge.rid)
link_zbc == Deterministic("zigbee_connectivity", link_bridge.rid)
link_ic == Deterministic("internet_connectivity", link_bridge.rid)
link_bhome_glight == Deterministic("grouped_light", link_bridge_home.rid)

Device(services) == [rtype |-> "device", services |-> services]
BridgeHome(children, services) ==
    [rtype |-> "bridge_home", children |-> children, services |-> services]
Room(name, children, services) ==
    [rtype |-> "room", name |-> name, children |-> children, services |-> services]
Owned(rtype, owner) == [rtype |-> rtype, owner |-> owner]
\* GroupedLight::new(owner)
GroupedLight(owner) ==
    [rtype |-> "grouped_light", owner |-> owner, on |-> {}, dimming |-> {}]
Scene(group, targets) ==
    [rtype |-> "scene", group |-> group, actions |-> targets, status |-> {}]
EntertainmentConfiguration(locations, channels, lights) ==
    [rtype |-> "entertainment_configuration", locations |-> locations,
     channels |-> channels, light_services |-> lights]

\* State::new(): no resources.
EmptyRes == [x \in {} |-> x]

AddBridge(S) ==
    LET S1 == StAdd(S, link_bridge_dev,
                    Device({link_bridge, link_zbc, link_ic, link_bridge_ent, link_zbdd}))
        S2 == StAdd(S1, link_bridge, Owned("bridge", link_bridge_dev))
        S3 == StAdd(S2, link_bridge_home_dev, Device({link_bridge}))
        S4 == StAdd(S3, link_bridge_home,
                    BridgeHome({link_bridge_dev}, {link_bhome_glight}))
        S5 == StAdd(S4, link_zbdd, Owned("zigbee_device_discovery", link_bridge_dev))
        S6 == StAdd(S5, link_zbc, Owned("zigbee_connectivity", link_bridge_dev))
        S7 == StAdd(S6, link_ic, Owned("internet_connectivity", link_bridge_dev))
        S8 == StAdd(S7, link_bridge_ent, Owned("entertainment", link_bridge_dev))
    IN  StAdd(S8, link_bhome_glight, GroupedLight(link_bridge_home))

\* Resources::factory_reset
StFactoryReset(S) ==
    LET S1 == AddBridge([S EXCEPT !.res = EmptyRes, !.aux = EmptyRes])
    IN  IF StOk(S1) THEN [S1 EXCEPT !.woke = TRUE] ELSE S1

\* The store as Resources::init leaves it on first boot.
CoreRes == AddBridge(StBegin(EmptyRes, EmptyRes)).res

(***************************************************************************)
(* SpecStore: callers of the store API on a small graph: a room R with its *)
(* grouped light G and child devices D1, D2, whose lights are L1 and L2; a *)
(* scene of R that targets both lights; an entertainment configuration     *)
(* that places L1.                                                         *)
(***************************************************************************)
lR == Deterministic("room", <<"R">>)
lG == Deterministic("grouped_light", <<"R">>)
lD1 == Deterministic("device", <<"D1">>)
lD2 == Deterministic("device", <<"D2">>)
lL1 == Deterministic("light", <<"D1">>)
lL2 == Deterministic("light", <<"D2">>)
lSc == Deterministic("scene", <<"S">>)
lE == Deterministic("entertainment_configuration", <<"E">>)

\* The (link, resource) pairs that callers add.
StoreAdds ==
    { <<lR, Room("r", {lD1, lD2}, {lG})>>,
      <<lG, GroupedLight(lR)>>,
      <<lD1, Device({lL1})>>,
      <<lD2, Device({lL2})>>,
      <<lL1, Owned("light", lD1)>>,
      <<lL2, Owned("light", lD2)>>,
      <<lSc, Scene(lR, {lL1, lL2})>>,
      <<lE, EntertainmentConfiguration({lL1}, {{lL1}}, {lL1})>> }

\* The updates callers make: (link, variant, closure).
StoreUpdates ==
    { <<link_bridge_home, "bridge_home", [f |-> "extend_children", links |-> {lR}]>>,
      <<lR, "room", [f |-> "set_services", links |-> {lG}]>> }

\* The links callers delete: the graph above, not the bridge itself.
StoreDeletes == {p[1] : p \in StoreAdds}

StoreInit ==
    /\ StreamIdle
    /\ BusIdle
    /\ AdapterIdle
    /\ res = CoreRes
    /\ aux = EmptyRes
    /\ emitted = <<>>
    /\ woke = FALSE
    /\ last = [op |-> "init", link |-> link_bridge, err |-> "ok"]

Commit(S, op, link) ==
    /\ res' = S.res
    /\ aux' = S.aux
    /\ emitted' = S.ev
    /\ woke' = S.woke
    /\ last' = [op |-> op, link |-> link, err |-> S.err]
    /\ UNCHANGED <<streamVars, adapterVars, busVars>>

StoreAdd ==
    \E p \in StoreAdds :
        Commit(StAdd(StBegin(res, aux), p[1], p[2]), "add", p[1])

StoreUpdate ==
    \E u \in StoreUpdates :
        Commit(StTryUpdate(StBegin(res, aux), u[1].rid, u[2], u[3]),
               "update", u[1])

StoreDelete ==
    \E l \in StoreDeletes :
        Commit(StDelete(StBegin(res, aux), l), "delete", l)

StoreFactoryReset ==
    Commit(StFactoryReset(StBegin(res, aux)), "factory_reset", link_bridge)

StoreNext == StoreAdd \/ StoreUpdate \/ StoreDelete \/ StoreFactoryReset

SpecStore == StoreInit /\ [][StoreNext]_vars

(***************************************************************************)
(* Properties of the store operations (checked under SpecStore).           *)
(***************************************************************************)
\* Every link a resource holds: owner, children, services, scene group and
\* action targets, entertainment locations, channel members, light services.
Field(obj, f) == IF f \in DOMAIN obj THEN obj[f] ELSE {}
LinksOf(obj) ==
    Owner(obj)
    \cup Field(obj, "children") \cup Field(obj, "services")
    \cup (IF "group" \in DOMAIN obj THEN {obj.group} ELSE {})
    \cup Field(obj, "actions") \cup Field(obj, "locations")
    \cup UNION Field(obj, "channels") \cup Field(obj, "light_services")

\* The object that callers pass when they add `link`.
AddedObject(link) == (CHOOSE p \in StoreAdds : p[1] = link)[2]

\* C9: add on an id that is already stored returns Ok, leaves the store as it
\* was (the new value is discarded) and emits nothing; add on an absent id
\* stores the value and emits exactly one add event carrying the full record.
AddIdempotent ==
    [][last'.op = "add" =>
        LET link == last'.link
            obj == AddedObject(link)
        IN  /\ last'.err = "ok"
            /\ IF link.rid \in DOMAIN res
               THEN res' = res /\ emitted' = <<>>
               ELSE /\ DOMAIN res' = DOMAIN res \cup {link.rid}
                    /\ res'[link.rid] = obj
                    /\ \A x \in DOMAIN res : res'[x] = res[x]
                    /\ emitted' = <<[kind |-> "add", rid |-> link.rid,
                                     rtype |-> link.rtype, data |-> {obj}]>>
    ]_vars

\* C9 witness: the room was added again while the stored room differed from
\* the value passed (a child had been purged); nothing was emitted.
AddIdempotentWitness ==
    /\ last = [op |-> "add", link |-> lR, err |-> "ok"]
    /\ emitted = <<>>
    /\ lR.rid \in DOMAIN res
    /\ res[lR.rid] # AddedObject(lR)

\* C8: an update whose closure changes nothing emits no event (so the event
\* id does not advance) and does not wake the persister; an update that
\* changes the resource emits exactly one update event, for that resource.
DiffMinimal ==
    [][(last'.op = "update" /\ last'.err = "ok") =>
        LET id == last'.link.rid
        IN  /\ DOMAIN res' = DOMAIN res
            /\ \A x \in DOMAIN res \ {id} : res'[x] = res[x]
            /\ IF res'[id] = res[id]
               THEN emitted' = <<>> /\ ~woke'
               ELSE /\ Len(emitted') = 1
                    /\ emitted'[1].kind = "update"
                    /\ emitted'[1].rid = id
                    /\ woke'
    ]_vars

\* C8 witness: a successful update of the room that changed nothing.
DiffMinimalWitness ==
    /\ last = [op |-> "update", link |-> lR, err |-> "ok"]
    /\ emitted = <<>>
    /\ ~woke

\* The graph of Scenario D: R with services {G} and children {D1, D2}, G
\* owned by R, each device with its light, R a child of the bridge home.
ScenarioD(r) ==
    /\ {lR.rid, lG.rid, lD1.rid, lD2.rid, lL1.rid, lL2.rid, link_bridge_home.rid}
           \subseteq DOMAIN r
    /\ r[lR.rid].children = {lD1, lD2}
    /\ r[lR.rid].services = {lG}
    /\ lR \in r[link_bridge_home.rid].children
    /\ r[lD1.rid].services = {lL1}
    /\ r[lD2.rid].services = {lL2}

\* C3 as stated: after delete(R) on the graph of Scenario D the store holds
\* none of R, G, D1, D2, L1, L2 and the bridge home no longer lists R.
ScenarioDAsStated ==
    [][(ScenarioD(res) /\ last'.op = "delete" /\ last'.link = lR) =>
        /\ DOMAIN res' \cap {lR.rid, lG.rid, lD1.rid, lD2.rid, lL1.rid, lL2.rid} = {}
        /\ lR \notin res'[link_bridge_home.rid].children
    ]_vars

\* C3 amended: after delete(R) on the graph of Scenario D the store holds
\* neither R nor G (owned by R), the bridge home no longer lists R, and the
\* child devices D1, D2 with their lights L1, L2 are still stored, unchanged.
ScenarioDCascade ==
    [][(ScenarioD(res) /\ last'.op = "delete" /\ last'.link = lR) =>
        /\ last'.err = "ok"
        /\ DOMAIN res' = DOMAIN res \ {lR.rid, lG.rid}
        /\ lR \notin res'[link_bridge_home.rid].children
        /\ \A l \in {lD1, lD2, lL1, lL2} : res'[l.rid] = res[l.rid]
    ]_vars

\* C3 witness: delete(R) has run on the graph of Scenario D: the bridge home
\* was updated, G and R were deleted, the devices and lights are stored.
ScenarioDWitness ==
    /\ last = [op |-> "delete", link |-> lR, err |-> "ok"]
    /\ Len(emitted) = 3
    /\ emitted[1].kind = "update" /\ emitted[1].rid = link_bridge_home.rid
    /\ emitted[2] = DeleteEvent(lG)
    /\ emitted[3] = DeleteEvent(lR)
    /\ {lD1.rid, lD2.rid, lL1.rid, lL2.rid} \subseteq DOMAIN res
    /\ res[lD1.rid].services = {lL1} /\ res[lD2.rid].services = {lL2}

\* C2: after delete(L) returns, no stored resource holds a reference to L
\* (child, service, owner, scene group, scene action target, entertainment
\* location, channel member) and L itself is absent.
CascadeCorrect ==
    (last.op = "delete" /\ last.err = "ok") =>
        /\ last.link.rid \notin DOMAIN res
        /\ \A x \in DOMAIN res : last.link \notin LinksOf(res[x])

\* C2 witness: delete(L1) returned Ok while the scene that targets L1 is
\* still stored.
CascadeWitness ==
    /\ last = [op |-> "delete", link |-> lL1, err |-> "ok"]
    /\ lSc.rid \in DOMAIN res

(***************************************************************************)
(* Scene numbering (Resources::get_next_scene_id) and SpecScene: scenes    *)
(* are created in two rooms with the index get_next_scene_id returns, and  *)
(* deleted again.                                                          *)
(***************************************************************************)
MAX_SCENE_ID == 100

\* Resources::aux_set with AuxData::new().with_index(sid)
StAuxSetIndex(S, link, sid) ==
    [S EXCEPT !.aux = (link.rid :> [index |-> {sid}]) @@ @]

\* get_next_scene_id without the `scn.group == room` test.
UsedSceneIdsAnyRoom(r, a, room) ==
    UNION {a[x].index : x \in {y \in DOMAIN r \cap DOMAIN a : r[y].rtype = "scene"}}

\* The set built by the first loop of get_next_scene_id.
UsedSceneIds(r, a, room) ==
    UNION {a[x].index : x \in {y \in DOMAIN r \cap DOMAIN a :
                                    r[y].rtype = "scene" /\ r[y].group = room}}

\* The second loop: the first x in x..MAX_SCENE_ID-1 that is not in the set.
RECURSIVE FirstFree(_, _)
FirstFree(set, x) ==
    IF x >= MAX_SCENE_ID THEN [err |-> "Full", val |-> -1]
    ELSE IF x \notin set THEN [err |-> "ok", val |-> x]
    ELSE FirstFree(set, x + 1)

\* Resources::get_next_scene_id
GetNextSceneId(r, a, room) == FirstFree(UsedSceneIds(r, a, room), 0)

SceneRooms == {"A", "B"}
RoomLink(room) == Deterministic("room", <<room>>)
SceneLink(room, key) == Deterministic("scene", <<room, key>>)

\* Bounds: scenes created in room B; the indices whose scenes get deleted.
MaxOtherScenes == 1
DeletedIds == {1, 99}

ScenesOf(r, room) ==
    {x \in DOMAIN r : r[x].rtype = "scene" /\ r[x].group = RoomLink(room)}

SceneInit ==
    /\ StreamIdle
    /\ BusIdle
    /\ AdapterIdle
    /\ res = CoreRes
    /\ aux = EmptyRes
    /\ emitted = <<>>
    /\ woke = FALSE
    /\ last = [op |-> "init", link |-> link_bridge, err |-> "ok", val |-> -1]

SceneCommit(S, op, link, val) ==
    /\ res' = S.res
    /\ aux' = S.aux
    /\ emitted' = S.ev
    /\ woke' = S.woke
    /\ last' = [op |-> op, link |-> link, err |-> S.err, val |-> val]
    /\ UNCHANGED <<streamVars, adapterVars, busVars>>

\* A scene is created in `room` with the next free index:
\* get_next_scene_id, then aux_set and add (backend_scene_create).
SceneCreate ==
    \E room \in SceneRooms :
        /\ room = "B" => Cardinality(ScenesOf(res, room)) < MaxOtherScenes
        /\ LET n == GetNextSceneId(res, aux, RoomLink(room))
               link == SceneLink(room, ToString(n.val))
               S == StBegin(res, aux)
           IN  IF n.err # "ok"
               THEN SceneCommit(StFail(S, n.err), "scene_create", RoomLink(room), n.val)
               ELSE SceneCommit(StAdd(StAuxSetIndex(S, link, n.val), link,
                                      Scene(RoomLink(room), {})),
                                "scene_create", RoomLink(room), n.val)

\* A scene stored without an index in its AuxData is added to room A.
SceneAddUnnumbered ==
    SceneCommit(StAdd(StBegin(res, aux), SceneLink("A", "x"), Scene(RoomLink("A"), {})),
                "add", SceneLink("A", "x"), -1)

SceneDelete ==
    \E room \in SceneRooms, i \in DeletedIds :
        /\ SceneLink(room, ToString(i)).rid \in DOMAIN res
        /\ SceneCommit(StDelete(StBegin(res, aux), SceneLink(room, ToString(i))),
                       "delete", SceneLink(room, ToString(i)), -1)

\* A caller asks for the next scene id of a room.
SceneQuery ==
    \E room \in SceneRooms :
        LET n == GetNextSceneId(res, aux, RoomLink(room))
        IN  SceneCommit(StFail(StBegin(res, aux), n.err),
                        "get_next_scene_id", RoomLink(room), n.val)

SceneNext == SceneCreate \/ SceneAddUnnumbered \/ SceneDelete \/ SceneQuery

SpecScene == SceneInit /\ [][SceneNext]_vars

\* The indices in use in a room: those of the AuxData of its stored scenes.
IndicesInUse(room) ==
    {i \in 0..(MAX_SCENE_ID - 1) :
        \E x \in DOMAIN res :
            /\ res[x].rtype = "scene" /\ res[x].group = room
            /\ x \in DOMAIN aux /\ i \in aux[x].index}

\* C10: get_next_scene_id(room) returns the smallest integer of [0, 100) that
\* is not the AuxData index of a stored scene whose group is that room, and
\* fails with Full exactly when all 100 are in use; the scenes of other
\* rooms do not matter.
NextSceneIdSmallestFree ==
    last.op = "get_next_scene_id" =>
        LET used == IndicesInUse(last.link)
            free == (0..(MAX_SCENE_ID - 1)) \ used
        IN  /\ (last.err = "Full") <=> (free = {})
            /\ free # {} =>
                 /\ last.err = "ok"
                 /\ last.val \in free
                 /\ \A i \in free : last.val <= i

\* C10 witness: room A, which also holds a scene without an index, is full
\* while room B holds a single scene.
NextSceneIdWitness ==
    /\ last.op = "get_next_scene_id" /\ last.link = RoomLink("A")
    /\ last.err = "Full"
    /\ Cardinality(ScenesOf(res, "B")) = 1
    /\ SceneLink("A", "x").rid \in DOMAIN res

(***************************************************************************)
(* SpecStream: the event-stream route (routes/eventstream.rs) serving one  *)
(* client while handlers elsewhere emit events.  The stream itself         *)
(* (HueEventStream) numbers the events 1, 2, ... without gaps, keeps the   *)
(* last HUE_EVENTS_BUFFER_SIZE of them and broadcasts each to the          *)
(* receivers subscribed at that moment.                                    *)
(***************************************************************************)
HUE_EVENTS_BUFFER_SIZE == 128

\* Bound: the events emitted in a run.
MaxEvents == 3

\* HueEventStream::events_sent_after_id: the retained events with id > n.
RECURSIVE IdsFromTo(_, _)
IdsFromTo(a, b) == IF a > b THEN <<>> ELSE <<a>> \o IdsFromTo(a + 1, b)

EventsSentAfterId(count, n) ==
    LET oldest == IF count > HUE_EVENTS_BUFFER_SIZE
                  THEN count - HUE_EVENTS_BUFFER_SIZE + 1 ELSE 1
    IN  IdsFromTo(IF n + 1 > oldest THEN n + 1 ELSE oldest, count)

StreamInit ==
    /\ res = CoreRes
    /\ aux = EmptyRes
    /\ emitted = <<>>
    /\ woke = FALSE
    /\ last = [op |-> "init", link |-> link_bridge, err |-> "ok"]
    /\ StreamIdle
    /\ BusIdle
    /\ AdapterIdle

\* A handler holding the store lock changes the store; each block it hands
\* to hue_event gets the next id.  Here: a scene is added or deleted.
StreamEmit ==
    \E S \in {StAdd(StBegin(res, aux), lSc, Scene(lR, {})),
               StDelete(StBegin(res, aux), lSc)} :
        /\ S.ev # <<>>
        /\ evCount + Len(S.ev) <= MaxEvents
        /\ evCount' = evCount + Len(S.ev)
        /\ res' = S.res /\ aux' = S.aux /\ emitted' = S.ev /\ woke' = S.woke
        /\ last' = [op |-> "emit", link |-> lSc, err |-> S.err]
        /\ UNCHANGED <<sse, adapterVars, busVars>>

\* A client opens GET /eventstream/clip/v2, with or without last-event-id.
SseConnect ==
    /\ sse.pc = "idle"
    /\ \E hdr \in {{}} \cup {{n} : n \in 0..evCount} :
          sse' = [pc |-> "connected", last_event_id |-> hdr, got |-> <<>>]
    /\ UNCHANGED <<evCount, storeVars, adapterVars, busVars>>

\* get_clip_v2, first lock: subscribe to the broadcast channel.  The
\* receiver will see the events sent from now on.
SseSubscribe ==
    /\ sse.pc = "connected"
    /\ sse' = [pc |-> "subscribed", last_event_id |-> sse.last_event_id,
               got |-> sse.got, cursor |-> evCount]
    /\ UNCHANGED <<evCount, storeVars, adapterVars, busVars>>

\* get_clip_v2, second lock: with a last-event-id, fetch the retained events
\* after it and chain them before the live stream.
SseReplay ==
    /\ sse.pc = "subscribed"
    /\ sse' = [pc |-> "streaming", last_event_id |-> sse.last_event_id,
               got |-> sse.got, cursor |-> sse.cursor,
               previous_events |->
                   IF sse.last_event_id = {} THEN <<>>
                   ELSE EventsSentAfterId(evCount,
                                          CHOOSE n \in sse.last_event_id : TRUE)]
    /\ UNCHANGED <<evCount, storeVars, adapterVars, busVars>>

\* The response stream yields its next item: the replayed events first,
\* then what the broadcast receiver holds.
SseDeliver ==
    /\ sse.pc = "streaming"
    /\ IF sse.previous_events # <<>>
       THEN sse' = [sse EXCEPT !.got = Append(@, Head(sse.previous_events)),
                               !.previous_events = Tail(@)]
       ELSE /\ sse.cursor < evCount
            /\ sse' = [sse EXCEPT !.got = Append(@, sse.cursor + 1),
                                   !.cursor = @ + 1]
    /\ UNCHANGED <<evCount, storeVars, adapterVars, busVars>>

\* The client goes away; it may connect again.
SseDisconnect ==
    /\ sse.pc = "streaming"
    /\ sse' = [pc |-> "idle"]
    /\ UNCHANGED <<evCount, storeVars, adapterVars, busVars>>

StreamNext ==
    \/ StreamEmit
    \/ SseConnect
    \/ SseSubscribe
    \/ SseReplay
    \/ SseDeliver
    \/ SseDisconnect

SpecStream == StreamInit /\ [][StreamNext]_vars

\* C4: a client that connected with last-event-id = N is delivered the
\* events N+1, N+2, ... in id order, none twice and none skipped, whatever
\* the interleaving of the handler with the handlers that emit events.
ReplayInOrder ==
    (sse.pc = "streaming" /\ sse.last_event_id # {}) =>
        \A i \in 1..Len(sse.got) :
            sse.got[i] = (CHOOSE n \in sse.last_event_id : TRUE) + i

\* C4 witness: a client that presented last-event-id = 0 has been delivered
\* the same event twice.
ReplayDuplicateWitness ==
    /\ sse.pc = "streaming" /\ sse.last_event_id = {0}
    /\ \E i \in 1..Len(sse.got) : \E j \in 1..Len(sse.got) :
           i < j /\ sse.got[i] = sse.got[j]

(***************************************************************************)
(* The Home Assistant adapter (src/src/backend/hass) and the UI routes     *)
(* (src/src/routes/bifrost/hass.rs).  Home Assistant exposes the lights of *)
(* EntityIds and no areas; the UI configuration keeps its default lists    *)
(* (no hidden ids, no name patterns), so inclusion is decided by the       *)
(* per-entity visibility preference.                                       *)
(***************************************************************************)
EntityIds == {"light.a"}
BackendName == "ha"

\* HassUiConfig::normalize: the default room exists; a room preference for
\* a room that is gone is cleared; empty preferences are dropped.
Normalize(cfg) ==
    LET rooms == cfg.rooms \cup {DEFAULT_ROOM_ID}
        fix(p) == [p EXCEPT !.room_id = @ \cap rooms]
        keep == {e \in DOMAIN cfg.entity_preferences :
                    LET p == fix(cfg.entity_preferences[e])
                    IN  p.visible # {} \/ p.room_id # {}}
    IN  [cfg EXCEPT !.rooms = rooms,
                    !.source_area = [id \in DOMAIN @ \cap rooms |-> @[id]],
                    !.entity_preferences = [e \in keep |-> fix(cfg.entity_preferences[e])]]

\* entity_preferences.entry(entity_id).or_default()
PrefOf(cfg, e) ==
    IF e \in DOMAIN cfg.entity_preferences THEN cfg.entity_preferences[e]
    ELSE [visible |-> {}, room_id |-> {}]

\* HassUiConfig::set_entity_hidden
SetEntityHidden(cfg, e, hidden) ==
    Normalize([cfg EXCEPT !.entity_preferences =
                  MapInsert(@, e, [PrefOf(cfg, e) EXCEPT !.visible = {~hidden}])])

\* HassUiConfig::set_entity_room
SetEntityRoom(cfg, e, room_id) ==
    Normalize([cfg EXCEPT !.entity_preferences =
                  MapInsert(@, e, [PrefOf(cfg, e) EXCEPT !.room_id = room_id])])

\* HassUiConfig::should_include
ShouldInclude(cfg, e, available) ==
    IF ~cfg.include_unavailable /\ ~available THEN FALSE
    ELSE IF PrefOf(cfg, e).visible # {}
         THEN CHOOSE v \in PrefOf(cfg, e).visible : TRUE
         ELSE cfg.default_add_new_devices_to_hue

\* HassUiState::add_room and HassUiConfig::ensure_room_for_area: the first
\* of id, id-2, id-3, .. that is free
RECURSIVE RoomCandidate(_, _, _)
RoomCandidate(ids, id, i) ==
    LET candidate == IF i = 1 THEN id ELSE id \o "-" \o ToString(i)
    IN  IF candidate \in ids THEN RoomCandidate(ids, id, i + 1) ELSE candidate

\* HassUiConfig::room_for_area: the room whose source_area is the area
\* (at most one room is created for an area).
RoomForArea(cfg, area_name) ==
    {id \in DOMAIN cfg.source_area : cfg.source_area[id] = area_name}

\* format!("area-{}", sanitize_id(area_name)) for the area names in use
AreaRoomBase(area_name) ==
    CASE area_name = "Kitchen" -> "area-kitchen"

\* HassUiConfig::ensure_room_for_area
EnsureRoomForArea(cfg, area_name) ==
    IF area_name \in cfg.ignored_area_names \/ RoomForArea(cfg, area_name) # {}
    THEN cfg
    ELSE Normalize([cfg EXCEPT
             !.rooms = @ \cup {RoomCandidate(@, AreaRoomBase(area_name), 1)},
             !.source_area =
                 MapInsert(@, RoomCandidate(cfg.rooms, AreaRoomBase(area_name), 1),
                           area_name)])

\* The room preference of an entity, if it names a configured room.
PreferredRoom(cfg, e) == PrefOf(cfg, e).room_id \cap cfg.rooms

\* HassBackend::assigned_room_id
AssignedRoomId(cfg, imported) ==
    IF PreferredRoom(cfg, imported.entity_id) # {}
    THEN CHOOSE r \in PreferredRoom(cfg, imported.entity_id) : TRUE
    ELSE IF /\ cfg.sync_hass_areas_to_rooms
            /\ imported.area_name # {}
            /\ \E a \in imported.area_name : RoomForArea(cfg, a) # {}
    THEN CHOOSE r \in UNION {RoomForArea(cfg, a) : a \in imported.area_name} : TRUE
    ELSE DEFAULT_ROOM_ID

\* The states Home Assistant reports for an entity: the supported colour
\* modes, the attributes present, and the state string.
HaStates ==
    {[entity_id |-> e, state |-> p[1], modes |-> p[2], attributes |-> p[3]] :
        e \in EntityIds,
        p \in {<<"on", {"xy", "color_temp"}, {"brightness", "xy_color", "color_temp"}>>,
               <<"off", {}, {}>>,
               <<"on", {}, {"brightness"}>>,
               <<"unavailable", {}, {}>>}}

\* parse_light_capabilities
ParseLightCapabilities(state) ==
    LET modes == state.modes
        has_brightness_attr == "brightness" \in state.attributes
        has_color_temp_attr == "color_temp" \in state.attributes
        has_xy_attr == "xy_color" \in state.attributes
        supports_color == modes \cap {"xy", "hs", "rgb", "rgbw", "rgbww"} # {}
    IN  [supports_brightness |->
             has_brightness_attr
             \/ modes \cap {"brightness", "xy", "hs", "rgb", "rgbw", "rgbww",
                            "color_temp"} # {},
         supports_color |-> supports_color \/ has_xy_attr,
         supports_color_temp |-> "color_temp" \in modes \/ has_color_temp_attr]

\* HassLightCapabilities::default()
NoCapabilities ==
    [supports_brightness |-> FALSE, supports_color |-> FALSE,
     supports_color_temp |-> FALSE]

\* `state.entity_id.split_once('.')`: the domain of an entity id.
EntityDomain(e) ==
    CASE e = "light.a" -> "light"
      [] e = "switch.b" -> "switch"
      [] e = "binary_sensor.c" -> "binary_sensor"

\* detected_sensor_kind
DetectedSensorKind(state) ==
    CASE state.device_class \in {"motion", "occupancy", "presence"} -> "motion"
      [] state.device_class \in {"door", "opening", "window", "garage_door"} -> "contact"
      [] OTHER -> "ignore"

\* parse_imported_entity, the match on the domain: the service kind, the
\* capabilities and the detected sensor kind.
ParsedKind(state) ==
    CASE EntityDomain(state.entity_id) = "light" ->
            [service_kind |-> "light",
             capabilities |-> ParseLightCapabilities(state), detected |-> {}]
      [] EntityDomain(state.entity_id) = "switch" ->
            [service_kind |-> "switch", capabilities |-> NoCapabilities,
             detected |-> {}]
      [] EntityDomain(state.entity_id) = "binary_sensor" ->
            [service_kind |-> IF DetectedSensorKind(state) = "contact"
                              THEN "contact" ELSE "motion",
             capabilities |-> NoCapabilities,
             detected |-> {DetectedSensorKind(state)}]

\* parse_imported_entity: an attribute value is kept only for a light, when
\* the attribute is present and the capability is set.
ParseImportedEntity(state, area_name) ==
    LET kind == EntityDomain(state.entity_id)
        parsed == ParsedKind(state)
        capabilities == parsed.capabilities
        available == state.state \notin {"unavailable", "unknown"}
        attr(name, cap) ==
            IF kind = "light" /\ cap /\ name \in state.attributes
            THEN {name} ELSE {}
    IN  [entity_id |-> state.entity_id,
         kind |-> kind,
         service_kind |-> parsed.service_kind,
         available |-> available,
         on |-> available /\ state.state = "on",
         brightness |-> attr("brightness", capabilities.supports_brightness),
         xy_color |-> attr("xy_color", capabilities.supports_color),
         color_temp |-> attr("color_temp", capabilities.supports_color_temp),
         area_name |-> area_name,
         capabilities |-> capabilities,
         detected_sensor_kind |-> parsed.detected]

\* The binary sensors that sync_entities, sync_entity_by_id and
\* handle_state_update leave out: `sensor_kind(..) == Ignore`.
SensorIgnored(imported) ==
    imported.kind = "binary_sensor" /\ imported.detected_sensor_kind = {"ignore"}

(***************************************************************************)
(* Adapter handlers thread a record H = [st, hass, ui, rt, log, calls]:    *)
(* the store record of the handler, the adapter's own fields, the UI       *)
(* state, the runtime state, the UI log entries pushed and the Home        *)
(* Assistant requests made so far.                                         *)
(* The first error propagated with `?` is H.st.err; once it is set, the    *)
(* remaining steps of the handler leave H as it is.                        *)
(***************************************************************************)
HBegin == [st |-> StBegin(res, aux), hass |-> hass, ui |-> ui, rt |-> rt,
           log |-> <<>>, calls |-> <<>>, now |-> clock]

HOk(H) == StOk(H.st)

HFail(H, e) == [H EXCEPT !.st = StFail(@, e)]

\* HassBackend::ui_log / HassUiState::push_log
UiLog(H, msg) == [H EXCEPT !.log = Append(@, msg)]

\* The log entry that closes a handler which got this far without error.
LogIfOk(H, msg) == IF HOk(H) THEN UiLog(H, msg) ELSE H

\* A request of HassClient to Home Assistant: it needs the client's token,
\* then goes out; `ok` is whether Home Assistant answers with success.
HaCall(H, name, ok) ==
    IF ~HOk(H) THEN H
    ELSE IF ~H.hass.token THEN HFail(H, "ServiceError: token not initialized")
    ELSE IF ok THEN [H EXCEPT !.calls = Append(@, name)]
    ELSE HFail([H EXCEPT !.calls = Append(@, name)], "HassError")

\* Requests whose failure the caller tolerates (`.ok()`, a logged fallback).
HaCalls(H, names) == IF ~HOk(H) THEN H ELSE [H EXCEPT !.calls = @ \o names]

\* HassBackend::apply_runtime_connection (no token in the environment)
ApplyRuntimeConnection(H) ==
    IF ~HOk(H) THEN H
    ELSE IF ~H.rt.enabled THEN HFail(H, "ServiceError: disconnected")
    ELSE IF H.rt.token THEN [H EXCEPT !.hass.token = TRUE]
    ELSE HFail(H, "ServiceError: no token")

\* RType::Device.deterministic(format!("hass:{name}:{entity_id}:device"))
DeviceLinkFor(e) == Deterministic("device", <<"hass", BackendName, e, "device">>)

\* HassBackend::links_for_entity and the zigbee_connectivity link
LinksForEntity(e, service_kind) ==
    [device |-> DeviceLinkFor(e),
     service |->
         CASE service_kind \in {"light", "switch"} ->
                 Deterministic("light", <<"hass", BackendName, e, "light">>)
           [] service_kind = "motion" ->
                 Deterministic("motion", <<"hass", BackendName, e, "motion">>)
           [] service_kind = "contact" ->
                 Deterministic("contact", <<"hass", BackendName, e, "contact">>),
     zbc |-> Deterministic("zigbee_connectivity", <<"hass", BackendName, e, "zbc">>)]

\* HassBackend::room_binding with room_links_for_id
RoomBinding(id) ==
    [room_id |-> id,
     room_link |-> Deterministic("room", <<"hass", BackendName, "room", id>>),
     grouped_light_link |->
         Deterministic("grouped_light", <<"hass", BackendName, "grouped", id>>)]

\* make_device: model_id is format!("hass-{domain}")
HassDevice(services, domain) ==
    [rtype |-> "device", services |-> services,
     manufacturer_name |-> "Home Assistant",
     model_id |-> CASE domain = "light" -> "hass-light"
                    [] domain = "switch" -> "hass-switch"
                    [] domain = "binary_sensor" -> "hass-binary_sensor"]

\* The `motion` value of a Motion and the `contact` value of a Contact
\* (make_contact_resource): what is reported and when it was written.
SensorReport(imported, now) ==
    [value |-> imported.on, valid |-> imported.available, last_updated |-> now]

\* Motion { enabled, owner, motion, sensitivity } / make_contact_resource
Sensor(rtype, owner, imported, now) ==
    [rtype |-> rtype, owner |-> owner, enabled |-> TRUE,
     report |-> SensorReport(imported, now)]

\* Light::new(owner, metadata)
Light(owner) ==
    [rtype |-> "light", owner |-> owner, on |-> FALSE,
     dimming |-> {}, color |-> {}, color_temperature |-> {}]

\* The test both prune loops make on a device before deleting it.
IsHassDevice(o) ==
    /\ "manufacturer_name" \in DOMAIN o
    /\ o.manufacturer_name = "Home Assistant"
    /\ o.model_id \in {"hass-light", "hass-switch", "hass-binary_sensor"}

\* `if res.get::<T>(link).is_err() { res.add(link, obj)? }`
StAddIfMissing(S, link, obj) ==
    IF StOk(S) /\ ~Present(S.res, link) THEN StAdd(S, link, obj) ELSE S

\* `if res.get::<T>(link).is_err() { res.add(link, obj)? }
\*  else { res.update::<T>(&link.rid, closure)? }`
StAddOrUpdate(S, link, obj, c) ==
    IF StOk(S) /\ ~Present(S.res, link) THEN StAdd(S, link, obj)
    ELSE StTryUpdate(S, link.rid, link.rtype, c)

\* ensure_rooms, first loop: each configured room and its grouped light.
RECURSIVE EnsureRoomEach(_, _)
EnsureRoomEach(S, bindings) ==
    IF bindings = <<>> \/ ~StOk(S) THEN S
    ELSE EnsureRoomEach(
             StAddIfMissing(
                 StAddOrUpdate(S, Head(bindings).room_link,
                     Room(Head(bindings).room_id, {},
                          {Head(bindings).grouped_light_link}),
                     [f |-> "set_services",
                      links |-> {Head(bindings).grouped_light_link}]),
                 Head(bindings).grouped_light_link,
                 GroupedLight(Head(bindings).room_link)),
             Tail(bindings))

\* `if let Err(err) = res.delete(..) { log::warn!(..) }` over a list
RECURSIVE StDeleteIgnoring(_, _)
StDeleteIgnoring(S, links) ==
    IF links = <<>> THEN S
    ELSE StDeleteIgnoring(StIgnore(StDelete(S, Head(links))), Tail(links))

\* ensure_rooms, the tail: the rooms of room_map that are no longer
\* configured are deleted and room_map becomes the configured set.
DropStaleRooms(H, rooms) ==
    IF ~HOk(H) THEN H
    ELSE [H EXCEPT
             !.st = StDeleteIgnoring(@,
                        SetToSeq({H.hass.room_map[id].room_link :
                                     id \in DOMAIN H.hass.room_map \ rooms})),
             !.hass.room_map = [id \in rooms |-> RoomBinding(id)]]

\* HassBackend::ensure_rooms
EnsureRooms(H, cfg) ==
    IF ~HOk(H) THEN H
    ELSE DropStaleRooms(
             [H EXCEPT !.st =
                 StUpdateByType(
                     EnsureRoomEach(@, SetToSeq({RoomBinding(id) : id \in cfg.rooms})),
                     "bridge_home",
                     [f |-> "extend_children",
                      links |-> {RoomBinding(id).room_link : id \in cfg.rooms}])],
             cfg.rooms)

\* sync_single_entity: the service link of the binding changed, the old
\* service is dropped.
DropMovedService(S, previous, current) ==
    IF previous # current /\ previous.rid \in DOMAIN S.res
    THEN StIgnore(StDelete(S, previous)) ELSE S

\* sync_single_entity, the match on the service kind: a light or a motion
\* service is added or updated; a contact is deleted and added again.
SyncService(S, links, imported, now) ==
    CASE imported.service_kind \in {"light", "switch"} ->
            StAddOrUpdate(S, links.service,
                          ApplyLightState(Light(links.device), imported),
                          [f |-> "apply_light_state", imported |-> imported])
      [] imported.service_kind = "motion" ->
            StAddOrUpdate(S, links.service,
                          Sensor("motion", links.device, imported, now),
                          [f |-> "set_motion", enabled |-> TRUE,
                           report |-> SensorReport(imported, now)])
      [] imported.service_kind = "contact" ->
            StAdd(IF StOk(S) /\ Present(S.res, links.service)
                  THEN StIgnore(StDelete(S, links.service)) ELSE S,
                  links.service,
                  Sensor("contact", links.device, imported, now))

\* ServiceMaps without the removal of the previous service's entries.
ServiceMapsKeepPrevious(h, previous, service, e, service_kind) ==
    IF service_kind \in {"light", "switch"}
    THEN [h EXCEPT !.light_map = MapInsert(@, service.rid, e),
                   !.sensor_map = MapRemove(@, service.rid)]
    ELSE [h EXCEPT !.sensor_map = MapInsert(@, service.rid, e),
                   !.light_map = MapRemove(@, service.rid)]

\* sync_single_entity: light_map and sensor_map after the binding is set.
ServiceMaps(h, previous, service, e, service_kind) ==
    LET moved(m) == IF previous # service THEN MapRemove(m, previous.rid) ELSE m
    IN  IF service_kind \in {"light", "switch"}
        THEN [h EXCEPT !.light_map = MapInsert(moved(@), service.rid, e),
                       !.sensor_map = MapRemove(moved(@), service.rid)]
        ELSE [h EXCEPT !.sensor_map = MapInsert(moved(@), service.rid, e),
                       !.light_map = MapRemove(moved(@), service.rid)]

\* HassBackend::sync_single_entity
SyncSingleEntity(H, imported) ==
    IF ~HOk(H) THEN H
    ELSE
    LET e == imported.entity_id
        links == LinksForEntity(e, imported.service_kind)
        previous == IF e \in DOMAIN H.hass.entity_map
                    THEN H.hass.entity_map[e].service_link ELSE links.service
    IN  [H EXCEPT
            !.st = SyncService(
                       StAddIfMissing(
                           StAddOrUpdate(
                               DropMovedService(@, previous, links.service),
                               links.device,
                               HassDevice({links.service, links.zbc}, imported.kind),
                               [f |-> "set_services",
                                links |-> {links.service, links.zbc}]),
                           links.zbc,
                           Owned("zigbee_connectivity", links.device)),
                       links, imported, H.now),
            !.hass = [ServiceMaps(@, previous, links.service, e,
                                  imported.service_kind)
                      EXCEPT
                         !.entity_map =
                             MapInsert(@, e, [entity_id |-> e,
                                              kind |-> imported.kind,
                                              service_kind |-> imported.service_kind,
                                              service_link |-> links.service,
                                              device_link |-> links.device,
                                              capabilities |-> imported.capabilities]),
                         !.device_map = MapInsert(@, links.device.rid, e)]]

\* `for imported in imported_included.values() { sync_single_entity(..)?; }`
RECURSIVE SyncEach(_, _)
SyncEach(H, imported) ==
    IF imported = <<>> \/ ~HOk(H) THEN H
    ELSE SyncEach(SyncSingleEntity(H, Head(imported)), Tail(imported))

\* The adapter forgets an entity: entity_map, light_map, sensor_map and
\* device_map.
Forget(h, e) ==
    IF e \notin DOMAIN h.entity_map THEN h
    ELSE [h EXCEPT !.entity_map = MapRemove(@, e),
                   !.light_map = MapRemove(@, h.entity_map[e].service_link.rid),
                   !.sensor_map = MapRemove(@, h.entity_map[e].service_link.rid),
                   !.device_map = MapRemove(@, h.entity_map[e].device_link.rid)]

\* prune_homeassistant_devices after `res.delete(&link)` gave S: on success
\* the maps forget the device and its entity.
Pruned(H, rid, S) ==
    IF ~StOk(S) THEN [H EXCEPT !.st = StIgnore(S)]
    ELSE [H EXCEPT !.st = S,
                   !.hass = IF rid \in DOMAIN @.device_map
                            THEN Forget([@ EXCEPT !.device_map = MapRemove(@, rid)],
                                        @.device_map[rid])
                            ELSE @]

\* A prune loop without the test on manufacturer and model id.
PrunableUnkept(r, rid, keep) ==
    /\ rid \notin keep
    /\ Present(r, LinkTo("device", rid))

\* The devices a prune loop deletes: made for Home Assistant, not kept.
Prunable(r, rid, keep) ==
    /\ rid \notin keep
    /\ Present(r, LinkTo("device", rid))
    /\ IsHassDevice(r[rid])

\* HassBackend::prune_homeassistant_devices, the loop over the device ids
RECURSIVE PruneEach(_, _, _)
PruneEach(H, rids, keep) ==
    IF rids = <<>> THEN H
    ELSE PruneEach(IF Prunable(H.st.res, Head(rids), keep)
                   THEN Pruned(H, Head(rids),
                               StDelete(H.st, LinkTo("device", Head(rids))))
                   ELSE H,
                   Tail(rids), keep)

DeviceIds(r) == {x \in DOMAIN r : r[x].rtype = "device"}

\* sync_entities: `if pruned > 0 { self.ui_log(..) }`
LogPruned(H, before) ==
    IF DOMAIN H.st.res # before
    THEN UiLog(H, "Pruned stale Home Assistant devices from Hue bridge")
    ELSE H

PruneHomeassistantDevices(H, keep) ==
    IF ~HOk(H) THEN H
    ELSE LogPruned(PruneEach(H, SetToSeq(DeviceIds(H.st.res)), keep),
                   DOMAIN H.st.res)

\* `for room in self.room_map.values() { res.update::<Room>(.., closure)?; }`
RECURSIVE UpdateRoomEach(_, _, _)
UpdateRoomEach(H, ids, closure) ==
    IF ids = <<>> \/ ~HOk(H) THEN H
    ELSE UpdateRoomEach(
             [H EXCEPT !.st = StTryUpdate(@, H.hass.room_map[Head(ids)].room_link.rid,
                                          "room", closure[Head(ids)])],
             Tail(ids), closure)

\* entity_room.get(entity_id) or the default room
RoomOf(entity_room, e) ==
    IF e \in DOMAIN entity_room THEN entity_room[e] ELSE DEFAULT_ROOM_ID

\* children_by_room and the loop that stores it: every room of room_map
\* gets as children the device links of the bindings assigned to it.
SetRoomChildren(H, entity_room) ==
    UpdateRoomEach(H, SetToSeq(DOMAIN H.hass.room_map),
        [id \in DOMAIN H.hass.room_map |->
            [f |-> "set_children",
             links |-> {H.hass.entity_map[e].device_link :
                           e \in {x \in DOMAIN H.hass.entity_map :
                                     RoomOf(entity_room, x) = id}}]])

\* sync_grouped_light_states, the value computed for one room
GroupedState(members) ==
    [f |-> "set_grouped",
     on |-> {\E i \in members : i.on},
     dimming |-> IF \E i \in members : i.brightness # {}
                 THEN {"average"} ELSE {}]

RECURSIVE GroupedEach(_, _, _, _)
GroupedEach(H, ids, imported, entity_room) ==
    IF ids = <<>> \/ ~HOk(H) THEN H
    ELSE GroupedEach(
             [H EXCEPT !.st = StTryUpdate(@,
                  H.hass.room_map[Head(ids)].grouped_light_link.rid,
                  "grouped_light",
                  GroupedState({i \in imported :
                                   /\ i.entity_id \in DOMAIN H.hass.entity_map
                                   /\ H.hass.entity_map[i.entity_id].kind = "light"
                                   /\ i.entity_id \in DOMAIN entity_room
                                   /\ entity_room[i.entity_id] = Head(ids)}))],
             Tail(ids), imported, entity_room)

\* HassBackend::sync_grouped_light_states
SyncGroupedLightStates(H, imported, entity_room) ==
    GroupedEach(H, SetToSeq(DOMAIN H.hass.room_map), imported, entity_room)

\* sync_entities: the bindings that are no longer included are dropped and
\* their devices deleted (a failing delete is only logged).
RECURSIVE RemoveStaleEach(_, _)
RemoveStaleEach(H, stale) ==
    IF stale = <<>> THEN H
    ELSE RemoveStaleEach(
             [H EXCEPT !.hass = Forget(@, Head(stale)),
                       !.st = StIgnore(StDelete(@,
                                  H.hass.entity_map[Head(stale)].device_link))],
             Tail(stale))

RemoveStale(H, ids) ==
    IF ~HOk(H) THEN H
    ELSE RemoveStaleEach(H, SetToSeq(DOMAIN H.hass.entity_map \ ids))

\* What Home Assistant answers to GET /api/states: an error, or the states
\* of the entities it has (at most one state per entity).
HaReplies ==
    {[ok |-> FALSE, states |-> {}, areas |-> EmptyMap]}
    \cup {[ok |-> TRUE, states |-> ss, areas |-> EmptyMap] :
             ss \in {x \in SUBSET HaStates :
                        \A a \in x : \A b \in x : a.entity_id = b.entity_id => a = b}}

\* area_map.get(&state.entity_id)
AreaOf(areas, e) == IF e \in DOMAIN areas THEN {areas[e]} ELSE {}

\* sync_entities: `parsed`, every state of a supported domain with its area
Parsed(reply) ==
    {ParseImportedEntity(st, AreaOf(reply.areas, st.entity_id)) : st \in reply.states}

\* sync_entities: every area of a parsed entity gets a room
RECURSIVE EnsureAreaRooms(_, _)
EnsureAreaRooms(cfg, areas) ==
    IF areas = <<>> THEN cfg
    ELSE EnsureAreaRooms(EnsureRoomForArea(cfg, Head(areas)), Tail(areas))

\* sync_entities: the normalized UI configuration, with the area rooms when
\* sync_hass_areas_to_rooms is set; it is stored with set_config.
SyncedConfig(cfg, parsed) ==
    IF cfg.sync_hass_areas_to_rooms
    THEN EnsureAreaRooms(Normalize(cfg),
                         SetToSeq(UNION {i.area_name : i \in parsed}))
    ELSE Normalize(cfg)

\* HassUiState::set_config: the configuration is stored normalized
SetConfig(H, cfg) ==
    IF ~HOk(H) THEN H ELSE [H EXCEPT !.ui.config = Normalize(cfg)]

\* should_include, and a binary sensor of no known class is left out
Included(cfg, imported) ==
    /\ ShouldInclude(cfg, imported.entity_id, imported.available)
    /\ ~SensorIgnored(imported)

\* sync_entities: imported_included, the parsed entities the UI includes
ImportedIncluded(cfg, parsed) == {i \in parsed : Included(cfg, i)}

\* sync_entities: entity_room, the room assigned to each included entity
EntityRoom(cfg, included) ==
    [e \in {i.entity_id : i \in included} |->
        AssignedRoomId(cfg, CHOOSE i \in included : i.entity_id = e)]

\* sync_entities: the summaries stored in the UI state
SetSummaries(H, parsed) ==
    IF ~HOk(H) THEN H
    ELSE [H EXCEPT !.ui.entities =
             [e \in {i.entity_id : i \in parsed} |->
                 [available |-> \E i \in parsed : i.entity_id = e /\ i.available]]]

\* sync_entities, the part under the store lock
SyncIncluded(H, cfg, included) ==
    SyncGroupedLightStates(
        SetRoomChildren(
            RemoveStale(
                PruneHomeassistantDevices(
                    SyncEach(EnsureRooms(H, cfg), SetToSeq(included)),
                    {LinksForEntity(i.entity_id, i.service_kind).device.rid :
                        i \in included}),
                {i.entity_id : i \in included}),
            EntityRoom(cfg, included)),
        included, EntityRoom(cfg, included))

\* sync_entities once the configuration to sync against is known
SyncAgainst(H, reply, cfg) ==
    LogIfOk(
        SyncIncluded(
            SetSummaries(
                SetConfig(
                    HaCalls(HaCall(ApplyRuntimeConnection(H), "get_states", reply.ok),
                            <<"get_core_config", "get_entity_areas">>),
                    cfg),
                Parsed(reply)),
            cfg,
            ImportedIncluded(cfg, Parsed(reply))),
        "Synced entities")

\* HassBackend::sync_entities
SyncEntities(H, reply) ==
    SyncAgainst(H, reply, SyncedConfig(H.ui.config, Parsed(reply)))

\* run_sync, after sync_entities returned
SyncFinished(H) ==
    IF HOk(H)
    THEN UiLog([H EXCEPT !.ui.sync = "ok"], "Sync completed")
    ELSE UiLog([H EXCEPT !.ui.sync = "failed"], "Sync failed")

\* HassBackend::run_sync
RunSync(H, reply) == SyncFinished(SyncEntities(UiLog(H, "Sync requested"), reply))

\* sync_entity_by_id: "Move to selected room (remove from others first)"
MoveToRoom(H, device_link, room_id) ==
    IF HOk(H) /\ room_id \in DOMAIN H.hass.room_map
    THEN [H EXCEPT !.st = StTryUpdate(@, H.hass.room_map[room_id].room_link.rid,
                              "room",
                              [f |-> "extend_children", links |-> {device_link}])]
    ELSE H

RemoveFromRooms(H, device_link) ==
    UpdateRoomEach(H, SetToSeq(DOMAIN H.hass.room_map),
        [id \in DOMAIN H.hass.room_map |->
            [f |-> "remove_children", links |-> {device_link}]])

\* sync_entity_by_id once the state of the entity has been fetched
UpsertImported(H, cfg, imported) ==
    IF ~HOk(H) THEN H
    ELSE IF ~Included(cfg, imported)
    THEN UiLog(H, "Skipped import (not included by UI config)")
    ELSE LogIfOk(
             MoveToRoom(
                 RemoveFromRooms(SyncSingleEntity(EnsureRooms(H, cfg), imported),
                                 DeviceLinkFor(imported.entity_id)),
                 DeviceLinkFor(imported.entity_id),
                 AssignedRoomId(cfg, imported)),
             "Upserted into Hue bridge")

\* HassBackend::sync_entity_by_id; reply is the answer to GET /api/states/<id>
SyncEntityById(H, e, reply) ==
    UpsertImported(
        HaCalls(HaCall(ApplyRuntimeConnection(H), "get_state", reply.ok),
                <<"get_entity_area">>),
        H.ui.config,
        ParseImportedEntity(CHOOSE st \in reply.states : st.entity_id = e,
                            AreaOf(reply.areas, e)))

\* handle_state_update: a light whose payload yields no capability at all
\* keeps the capabilities of its binding.
KeepCapabilities(parsed, entity_map) ==
    IF /\ parsed.kind = "light"
       /\ parsed.capabilities = NoCapabilities
       /\ parsed.entity_id \in DOMAIN entity_map
    THEN [parsed EXCEPT !.capabilities = entity_map[parsed.entity_id].capabilities]
    ELSE parsed

\* handle_state_update once the payload is parsed
ApplyStateUpdate(H, cfg, imported) ==
    IF ~Included(cfg, imported) THEN H
    ELSE SyncSingleEntity(EnsureRooms(H, cfg), imported)

\* HassBackend::handle_state_update
HandleStateUpdate(H, state) ==
    ApplyStateUpdate(H, H.ui.config,
                     KeepCapabilities(ParseImportedEntity(state, {}),
                                      H.hass.entity_map))

\* remove_entity_by_id without the removal from the binding maps.
RemoveEntityByIdKeepMaps(H, e) ==
    UiLog([H EXCEPT !.st = StIgnore(StDelete(@, DeviceLinkFor(e)))],
          "Removed from Hue bridge")

\* HassBackend::remove_entity_by_id
RemoveEntityById(H, e) ==
    UiLog([H EXCEPT !.st = StIgnore(StDelete(@, DeviceLinkFor(e))),
                    !.hass = Forget(@, e)],
          "Removed from Hue bridge")

\* refresh_rooms_from_ui_config: entity_room, the room preference if it
\* names a configured room, else the default room
PreferredOrDefault(cfg, e) ==
    IF PreferredRoom(cfg, e) # {}
    THEN CHOOSE r \in PreferredRoom(cfg, e) : TRUE
    ELSE DEFAULT_ROOM_ID

\* HassBackend::refresh_rooms_from_ui_config
RefreshRoomsFromUiConfig(H) ==
    LogIfOk(SetRoomChildren(EnsureRooms(H, H.ui.config),
                            [e \in DOMAIN H.hass.entity_map |->
                                PreferredOrDefault(H.ui.config, e)]),
            "Updated room metadata and assignments from UI config")

(***************************************************************************)
(* Spec: the adapter's run loop handling sync, upsert, remove and room     *)
(* requests and websocket state changes, against the UI routes that edit   *)
(* the UI configuration, queue those requests, prune the store             *)
(* (post_apply) and reset it (post_reset_bridge).                          *)
(***************************************************************************)
\* Bounds: requests in flight on the channel; rooms in the UI configuration.
MaxQueue == 1
MaxRooms == 2

\* The names users give to rooms.
RoomNames == {"r1"}

\* What a handler leaves behind.
HCommit(H, op, link) ==
    /\ res' = H.st.res
    /\ aux' = H.st.aux
    /\ emitted' = H.st.ev
    /\ woke' = H.st.woke
    /\ last' = [op |-> op, link |-> link, err |-> H.st.err]
    /\ hass' = H.hass
    /\ ui' = H.ui
    /\ uilog' = H.log
    /\ hacalls' = H.calls
    /\ UNCHANGED <<streamVars, busVars, ha, clock>>

\* Resources::backend_request: the request goes onto the channel.
BackendRequest(req) ==
    /\ Len(queue) < MaxQueue
    /\ queue' = Append(queue, req)

\* The run loop takes the next request off the channel.
Receive(t) ==
    /\ hass.pc = "loop"
    /\ queue # <<>>
    /\ Head(queue).t = t
    /\ queue' = Tail(queue)

\* event_loop, before the loop: run_sync("startup"), its error only logged.
StartupWith(reply) ==
    /\ hass.pc = "start"
    /\ HCommit([RunSync(HBegin, reply) EXCEPT !.hass.pc = "loop"],
               "startup", link_bridge)
    /\ UNCHANGED <<rt, queue>>

Startup == \E reply \in HaReplies : StartupWith(reply)

\* handle_backend_event, BackendRequest::HassSync
HandleHassSync ==
    /\ Receive("HassSync")
    /\ \E reply \in HaReplies :
          HCommit(RunSync(HBegin, reply), "HassSync", link_bridge)
    /\ UNCHANGED rt

\* handle_backend_event, BackendRequest::HassUpsertEntity
HandleHassUpsertEntity ==
    /\ Receive("HassUpsertEntity")
    /\ LET e == Head(queue).entity_id
       IN  \E reply \in {r \in HaReplies :
                            r.ok => \E st \in HaStates :
                                        st.entity_id = e /\ r.states = {st}} :
               HCommit(SyncEntityById(HBegin, e, reply), "HassUpsertEntity",
                       DeviceLinkFor(e))
    /\ UNCHANGED rt

\* handle_backend_event, BackendRequest::HassRemoveEntity
HandleHassRemoveEntity ==
    /\ Receive("HassRemoveEntity")
    /\ HCommit(RemoveEntityById(HBegin, Head(queue).entity_id),
               "HassRemoveEntity", DeviceLinkFor(Head(queue).entity_id))
    /\ UNCHANGED rt

\* handle_backend_event, BackendRequest::HassUpdateRooms
HandleHassUpdateRooms ==
    /\ Receive("HassUpdateRooms")
    /\ HCommit(RefreshRoomsFromUiConfig(HBegin), "HassUpdateRooms", link_bridge)
    /\ UNCHANGED rt

\* event_loop, the tick arm: HassBackend::ensure_ws_connected
\* A tick that leaves the websocket as it is.
WsTickIdle(ok) ==
    /\ hass.pc = "loop"
    /\ ~hass.ws
    /\ HCommit(HBegin, "ws_tick", link_bridge)
    /\ UNCHANGED <<rt, queue>>

\* The tick arm of the loop; `ok` tells whether Home Assistant accepts the
\* handshake of subscribe_state_changed.
WsTickWith(ok) ==
    /\ hass.pc = "loop"
    /\ ~hass.ws
    /\ LET H1 == HaCall(ApplyRuntimeConnection(HBegin),
                        "subscribe_state_changed", ok)
       IN  IF ~rt.enabled THEN HCommit(HBegin, "ws_tick", link_bridge)
           ELSE IF HOk(H1)
           THEN HCommit(UiLog([H1 EXCEPT !.hass.ws = TRUE],
                              "Realtime state sync connected"),
                        "ws_tick", link_bridge)
           ELSE HCommit([H1 EXCEPT !.st = StIgnore(@)], "ws_tick", link_bridge)
    /\ UNCHANGED <<rt, queue>>

WsTick == \E ok \in BOOLEAN : WsTickWith(ok)

\* event_loop, the websocket arm with a state_changed event
WsStateChanged ==
    /\ hass.pc = "loop"
    /\ hass.ws
    /\ \E state \in HaStates :
          HCommit(HandleStateUpdate(HBegin, state), "state_changed",
                  LinksForEntity(state.entity_id, "light").service)
    /\ UNCHANGED <<rt, queue>>

\* event_loop, the websocket arm when the socket closed or failed
WsClosed ==
    /\ hass.pc = "loop"
    /\ hass.ws
    /\ HCommit([HBegin EXCEPT !.hass.ws = FALSE], "ws_closed", link_bridge)
    /\ UNCHANGED <<rt, queue>>

\* A route that edits the UI configuration and queues a request.
RouteCommit(cfg, op, msg, req) ==
    /\ BackendRequest(req)
    /\ HCommit(UiLog([HBegin EXCEPT !.ui.config = cfg], msg), op, link_bridge)
    /\ UNCHANGED rt

\* POST /sync
PostSync ==
    /\ BackendRequest([t |-> "HassSync"])
    /\ HCommit(HBegin, "post_sync", link_bridge)
    /\ UNCHANGED rt

\* PATCH /entity with `hidden` or with `room_id`
PatchEntity ==
    \E e \in EntityIds :
        \/ \E hidden \in BOOLEAN :
              RouteCommit(SetEntityHidden(ui.config, e, hidden), "patch_entity",
                          "Updated entity",
                          [t |-> IF hidden THEN "HassRemoveEntity"
                                 ELSE "HassUpsertEntity",
                           entity_id |-> e])
        \/ \E room \in {{}} \cup {{n} : n \in RoomNames} :
              RouteCommit(SetEntityRoom(ui.config, e, room), "patch_entity",
                          "Updated entity",
                          [t |-> "HassUpsertEntity", entity_id |-> e])

\* POST /rooms
PostRoom ==
    \E name \in RoomNames :
        /\ Cardinality(ui.config.rooms) < MaxRooms
        /\ RouteCommit(Normalize([ui.config EXCEPT !.rooms =
                                     @ \cup {RoomCandidate(@, name, 1)}]),
                       "post_room", "Added room", [t |-> "HassUpdateRooms"])

\* HassUiState::remove_room
RemoveRoom(cfg, id) ==
    IF id = DEFAULT_ROOM_ID THEN cfg
    ELSE Normalize([cfg EXCEPT
             !.rooms = @ \ {id},
             !.ignored_area_names =
                 @ \cup {cfg.source_area[x] : x \in DOMAIN cfg.source_area \cap {id}},
             !.entity_preferences =
                 [e \in DOMAIN @ |-> [@[e] EXCEPT !.room_id = @ \ {id}]]])

\* DELETE /rooms
DeleteRoom ==
    \E id \in ui.config.rooms :
        RouteCommit(RemoveRoom(ui.config, id), "delete_room", "Removed room",
                    [t |-> "HassUpdateRooms"])

\* post_apply, the loop over the device ids
RECURSIVE ApplyEach(_, _, _)
ApplyEach(S, rids, keep) ==
    IF rids = <<>> THEN S
    ELSE ApplyEach(IF \/ Head(rids) \in keep
                      \/ ~Present(S.res, LinkTo("device", Head(rids)))
                      \/ ~IsHassDevice(S.res[Head(rids)])
                   THEN S
                   ELSE StIgnore(StDelete(S, LinkTo("device", Head(rids)))),
                   Tail(rids), keep)

\* POST /apply
PostApply ==
    LET keep == {DeviceLinkFor(e).rid :
                    e \in {x \in DOMAIN ui.entities :
                              ShouldInclude(ui.config, x, ui.entities[x].available)}}
    IN  /\ HCommit(UiLog([HBegin EXCEPT !.st =
                             ApplyEach(@, SetToSeq(DeviceIds(res)), keep)],
                         "Applied selection to Hue bridge"),
                   "post_apply", link_bridge)
        /\ UNCHANGED <<rt, queue>>

\* POST /reset-bridge
PostResetBridge ==
    /\ HCommit(UiLog([HBegin EXCEPT !.st = StFactoryReset(@)],
                     "Hue bridge factory reset (resources cleared)"),
               "post_reset_bridge", link_bridge)
    /\ UNCHANGED <<rt, queue>>

Init ==
    /\ StreamIdle
    /\ BusIdle
    /\ AdapterIdle
    /\ res = CoreRes
    /\ aux = EmptyRes
    /\ emitted = <<>>
    /\ woke = FALSE
    /\ last = [op |-> "init", link |-> link_bridge, err |-> "ok"]

Next ==
    \/ Startup
    \/ HandleHassSync
    \/ HandleHassUpsertEntity
    \/ HandleHassRemoveEntity
    \/ HandleHassUpdateRooms
    \/ WsTick
    \/ WsStateChanged
    \/ WsClosed
    \/ PostSync
    \/ PatchEntity
    \/ PostRoom
    \/ DeleteRoom
    \/ PostApply
    \/ PostResetBridge

Spec == Init /\ [][Next]_vars

(***************************************************************************)
(* Properties of the adapter and the routes (checked under Spec).          *)
(***************************************************************************)
\* C1: in every reachable state, every link a stored resource holds (owner,
\* service, child, scene group, scene action target, entertainment
\* location) refers to a stored resource of the link's type.
ReferentialIntegrity ==
    \A x \in DOMAIN res : \A l \in LinksOf(res[x]) : Present(res, l)

\* C1 witness: HassUpdateRooms has stored, as child of a room, the device of
\* an entity the adapter still has a binding for while the store no longer
\* holds that device.
DanglingRoomChild ==
    /\ last.op = "HassUpdateRooms" /\ last.err = "ok"
    /\ \E e \in DOMAIN hass.entity_map : \E id \in DOMAIN hass.room_map :
          /\ hass.entity_map[e].device_link
                 \in res[hass.room_map[id].room_link.rid].children
          /\ hass.entity_map[e].device_link.rid \notin DOMAIN res

\* c >= p pointwise on (brightness, color, color_temp)
CapabilitiesAtLeast(c, p) ==
    /\ p.supports_brightness => c.supports_brightness
    /\ p.supports_color => c.supports_color
    /\ p.supports_color_temp => c.supports_color_temp

\* C7: when handle_state_update has processed a realtime payload, no
\* capability flag that was true for a light of the entity map has become
\* false in the capabilities the map then stores for it.
CapabilityNonRegression ==
    [][last'.op = "state_changed" =>
        \A e \in DOMAIN hass.entity_map \cap DOMAIN hass'.entity_map :
            CapabilitiesAtLeast(hass'.entity_map[e].capabilities,
                                hass.entity_map[e].capabilities)
    ]_vars

\* C7 witness: a realtime payload has left a light with brightness only and
\* the update it caused took the colour controls away from the stored light.
CapabilityDowngraded ==
    /\ last.op = "state_changed" /\ last.err = "ok"
    /\ \E e \in DOMAIN hass.entity_map :
          /\ hass.entity_map[e].capabilities =
                 [supports_brightness |-> TRUE, supports_color |-> FALSE,
                  supports_color_temp |-> FALSE]
          /\ \E i \in 1..Len(emitted) :
                /\ emitted[i].kind = "update"
                /\ emitted[i].rid = hass.entity_map[e].service_link.rid
                /\ \E d \in emitted[i].data :
                      "color" \in DOMAIN d /\ d.color = {}

(***************************************************************************)
(* SpecLoop: the run loop handling the requests of the Hue API (light,     *)
(* grouped light and scene requests) and of the connect and disconnect     *)
(* routes.  event_loop returns the error of handle_backend_event with `?`, *)
(* which ends the loop: hass.pc becomes "stopped".                         *)
(***************************************************************************)
\* The LightUpdate / GroupedLightUpdate payloads: on, off, brightness only.
LightUpdates ==
    {[on |-> {TRUE}, dimming |-> {}], [on |-> {FALSE}, dimming |-> {}],
     [on |-> {}, dimming |-> {"reported"}]}

\* The scene the Hue app creates.
link_scene == Deterministic("scene", <<"hass", "scene">>)

\* lookup_binding_by_light / lookup_binding_by_device on light_map / device_map
LookupBinding(h, map, link) ==
    IF link.rid \in DOMAIN map /\ map[link.rid] \in DOMAIN h.entity_map
    THEN {h.entity_map[map[link.rid]]} ELSE {}

\* The bindings a loop over `links` finds, in the order it visits them.
Bindings(h, map, links) ==
    SetToSeq(UNION {LookupBinding(h, map, l) : l \in links})

\* backend_light_update for HassEntityKind::Light
BackendLightUpdate(H, binding, upd, ok) ==
    IF ~HOk(H) THEN H
    ELSE IF upd.on = {FALSE} THEN HaCall(H, "light.turn_off", ok)
    ELSE IF \/ upd.on = {TRUE}
            \/ binding.capabilities.supports_brightness /\ upd.dimming # {}
    THEN HaCall(H, "light.turn_on", ok)
    ELSE H

\* `for .. { if let Some(binding) = .. { self.backend_light_update(..).await?; } }`
RECURSIVE LightUpdateEach(_, _, _, _)
LightUpdateEach(H, bindings, upd, ok) ==
    IF bindings = <<>> \/ ~HOk(H) THEN H
    ELSE LightUpdateEach(BackendLightUpdate(H, Head(bindings), upd, ok),
                         Tail(bindings), upd, ok)

\* backend_grouped_light_update
BackendGroupedLightUpdate(H, link, upd, ok) ==
    IF ~Present(H.st.res, link) THEN HFail(H, "NotFound")
    ELSE IF \/ H.st.res[link.rid].owner.rtype # "room"
            \/ ~Present(H.st.res, H.st.res[link.rid].owner)
    THEN HFail(H, "NotFound")
    ELSE LightUpdateEach(
             H, Bindings(H.hass, H.hass.device_map,
                         H.st.res[H.st.res[link.rid].owner.rid].children),
             upd, ok)

\* backend_scene_create after create_scene_snapshot: its error is logged.
SceneWritten(H, link) ==
    IF HOk(H)
    THEN [H EXCEPT !.hass.scene_map = MapInsert(@, link.rid, "scene.bifrost")]
    ELSE UiLog([H EXCEPT !.st = StIgnore(@)], "Scene writeback failed")

\* backend_scene_create after the scene is stored: the room snapshot.
SceneWriteback(H, link, scene, ok) ==
    IF ~HOk(H) THEN H
    ELSE IF \/ ~Present(H.st.res, scene.group)
            \/ Bindings(H.hass, H.hass.device_map,
                        H.st.res[scene.group.rid].children) = <<>>
    THEN UiLog(H, "Skipped scene writeback (empty room snapshot)")
    ELSE SceneWritten(HaCall(H, "scene.create", ok), link)

\* backend_scene_create
BackendSceneCreate(H, link, sid, scene, ok) ==
    SceneWriteback([H EXCEPT !.st = StAdd(StAuxSetIndex(@, link, sid), link, scene)],
                   link, scene, ok)

\* backend_scene_recall; every action of a scene switches its light on.
BackendSceneRecall(H, link, ok) ==
    IF ~HOk(H) THEN H
    ELSE IF link.rid \in DOMAIN H.hass.scene_map
    THEN HaCall(H, "scene.turn_on", ok)
    ELSE IF ~Present(H.st.res, link) THEN HFail(H, "NotFound")
    ELSE LightUpdateEach(
             H, Bindings(H.hass, H.hass.light_map, H.st.res[link.rid].actions),
             [on |-> {TRUE}, dimming |-> {}], ok)

\* backend_scene_update with recall.action = Static
BackendSceneUpdate(H, link, ok) ==
    BackendSceneRecall(
        [H EXCEPT !.st = StTryUpdate(@, link.rid, "scene", [f |-> "scene_recall"])],
        link, ok)

\* `self.handle_backend_event(req).await?` in event_loop
LoopCommit(H, op, link) ==
    HCommit([H EXCEPT !.hass.pc = IF HOk(H) THEN "loop" ELSE "stopped"], op, link)

\* handle_backend_event, BackendRequest::LightUpdate
HandleLightUpdate ==
    /\ Receive("LightUpdate")
    /\ \E ok \in BOOLEAN :
          LoopCommit(LightUpdateEach(HBegin,
                                     Bindings(hass, hass.light_map,
                                              {Head(queue).link}),
                                     Head(queue).upd, ok),
                     "LightUpdate", Head(queue).link)
    /\ UNCHANGED rt

\* handle_backend_event, BackendRequest::GroupedLightUpdate
HandleGroupedLightUpdate ==
    /\ Receive("GroupedLightUpdate")
    /\ \E ok \in BOOLEAN :
          LoopCommit(BackendGroupedLightUpdate(HBegin, Head(queue).link,
                                               Head(queue).upd, ok),
                     "GroupedLightUpdate", Head(queue).link)
    /\ UNCHANGED rt

\* handle_backend_event, BackendRequest::SceneCreate
HandleSceneCreate ==
    /\ Receive("SceneCreate")
    /\ \E ok \in BOOLEAN :
          LoopCommit(BackendSceneCreate(HBegin, Head(queue).link,
                                        Head(queue).sid, Head(queue).scene, ok),
                     "SceneCreate", Head(queue).link)
    /\ UNCHANGED rt

\* handle_backend_event, BackendRequest::SceneUpdate
HandleSceneUpdate ==
    /\ Receive("SceneUpdate")
    /\ \E ok \in BOOLEAN :
          LoopCommit(BackendSceneUpdate(HBegin, Head(queue).link, ok),
                     "SceneUpdate", Head(queue).link)
    /\ UNCHANGED rt

\* handle_backend_event, BackendRequest::HassConnect
HandleHassConnect ==
    /\ Receive("HassConnect")
    /\ rt' = [rt EXCEPT !.enabled = TRUE]
    /\ \E reply \in HaReplies :
          HCommit(RunSync([HBegin EXCEPT !.rt.enabled = TRUE,
                                         !.hass.ws = FALSE], reply),
                  "HassConnect", link_bridge)

\* handle_backend_event, BackendRequest::HassDisconnect
HandleHassDisconnect ==
    /\ Receive("HassDisconnect")
    /\ rt' = [rt EXCEPT !.enabled = FALSE]
    /\ HCommit(UiLog([HBegin EXCEPT !.hass.ws = FALSE],
                     "Home Assistant backend disconnected by user"),
               "HassDisconnect", link_bridge)

\* POST /connect
PostConnect ==
    /\ rt' = [rt EXCEPT !.enabled = TRUE]
    /\ BackendRequest([t |-> "HassConnect"])
    /\ HCommit(HBegin, "post_connect", link_bridge)

\* POST /disconnect
PostDisconnect ==
    /\ rt' = [rt EXCEPT !.enabled = FALSE]
    /\ BackendRequest([t |-> "HassDisconnect"])
    /\ HCommit(HBegin, "post_disconnect", link_bridge)

\* The stored resources of one type, as links (what from_id_v1 can find).
Stored(r, rtype) == {LinkTo(rtype, x) : x \in {y \in DOMAIN r : r[y].rtype = rtype}}

\* PUT /api/<user>/lights/<id>/state
V1PutLightState ==
    \E link \in Stored(res, "light") : \E upd \in LightUpdates :
        /\ BackendRequest([t |-> "LightUpdate", link |-> link, upd |-> upd])
        /\ HCommit(HBegin, "put_light_state", link)
        /\ UNCHANGED rt

\* PUT /api/<user>/groups/<id>/action, id # 0: a light update for the
\* grouped light of the room, or the recall of a stored scene.
V1PutGroupAction ==
    \E room \in Stored(res, "room") :
        /\ \E glight \in {l \in res[room.rid].services : l.rtype = "grouped_light"} :
              \/ \E upd \in LightUpdates :
                    BackendRequest([t |-> "GroupedLightUpdate", link |-> glight,
                                    upd |-> upd])
              \/ \E scene \in Stored(res, "scene") :
                    BackendRequest([t |-> "SceneUpdate", link |-> scene])
        /\ HCommit(HBegin, "put_group_action", room)
        /\ UNCHANGED rt

\* POST /clip/v2/resource/scene: a scene of a stored room over the stored
\* lights, numbered by get_next_scene_id.
ClipPostScene ==
    \E room \in Stored(res, "room") :
        /\ link_scene.rid \notin DOMAIN res
        /\ GetNextSceneId(res, aux, room).err = "ok"
        /\ BackendRequest([t |-> "SceneCreate", link |-> link_scene,
                           sid |-> GetNextSceneId(res, aux, room).val,
                           scene |-> Scene(room, Stored(res, "light"))])
        /\ HCommit(HBegin, "post_scene", link_scene)
        /\ UNCHANGED rt

LoopNext ==
    \/ Startup
    \/ HandleHassSync
    \/ HandleHassUpsertEntity
    \/ HandleHassRemoveEntity
    \/ HandleLightUpdate
    \/ HandleGroupedLightUpdate
    \/ HandleSceneCreate
    \/ HandleSceneUpdate
    \/ HandleHassConnect
    \/ HandleHassDisconnect
    \/ WsTick
    \/ PostSync
    \/ PatchEntity
    \/ PostConnect
    \/ PostDisconnect
    \/ PostResetBridge
    \/ V1PutLightState
    \/ V1PutGroupAction
    \/ ClipPostScene

SpecLoop == Init /\ [][LoopNext]_vars

(***************************************************************************)
(* Properties of the run loop (checked under SpecLoop).                    *)
(***************************************************************************)
\* The requests handle_backend_event handles for this adapter.
RequestOps ==
    {"LightUpdate", "GroupedLightUpdate", "SceneCreate", "SceneUpdate",
     "HassSync", "HassUpsertEntity", "HassRemoveEntity", "HassConnect",
     "HassDisconnect"}

\* C5: when the handling of a backend request has failed, the run loop is
\* still running (it goes on to the next request) and the failure has been
\* put into the UI log.
RequestFailureContained ==
    (last.op \in RequestOps /\ last.err # "ok")
        => (hass.pc = "loop" /\ uilog # <<>>)

\* C5 witness: a LightUpdate whose service call Home Assistant rejected has
\* ended the run loop, and nothing was put into the UI log.
LoopEndedByLightUpdate ==
    /\ last.op = "LightUpdate" /\ last.err = "HassError"
    /\ hacalls # <<>>
    /\ hass.pc = "stopped" /\ uilog = <<>>

\* The operations of the adapter that contact Home Assistant.
ContactOps ==
    {"startup", "HassSync", "HassUpsertEntity", "ws_tick", "LightUpdate",
     "GroupedLightUpdate", "SceneCreate", "SceneUpdate"}

\* C6: an operation of the adapter that ran while the runtime enabled flag
\* was false made no call to Home Assistant, and when it is a full sync or
\* a single-entity upsert what it yielded is the ServiceError of the
\* disconnected state.
DisabledShortCircuits ==
    (~rt.enabled /\ last.op \in ContactOps)
        => /\ hacalls = <<>>
           /\ last.op \in {"startup", "HassSync", "HassUpsertEntity"}
                  => last.err = "ServiceError: disconnected"

\* C6 witness: with the flag false a LightUpdate has switched a light of
\* Home Assistant and returned Ok.
CallWhileDisabled ==
    /\ ~rt.enabled
    /\ last.op = "LightUpdate" /\ last.err = "ok"
    /\ hacalls # <<>>

(***************************************************************************)
(* The UI configuration as text (model/hass.rs).  A string is a sequence   *)
(* of one-character strings, so that trimming, lower-casing, sanitizing    *)
(* and substring search are computed character by character.               *)
(***************************************************************************)
\* char::to_ascii_lowercase on the letters that occur in upper case
ToAsciiLowercase(c) ==
    CASE c = "A" -> "a" [] c = "H" -> "h" [] c = "K" -> "k" [] c = "L" -> "l"
      [] OTHER -> c

\* char::is_ascii_alphanumeric
IsAsciiAlphanumeric(c) ==
    c \in {"a", "e", "h", "i", "k", "l", "m", "n", "o", "r", "s", "t",
           "2", "3", "4", "5", "6", "A", "H", "K", "L"}

\* char::is_ascii_whitespace
IsAsciiWhitespace(c) == c = " "

\* str::to_ascii_lowercase
Lowercase(text) == [i \in 1..Len(text) |-> ToAsciiLowercase(text[i])]

\* str::eq_ignore_ascii_case
EqIgnoreAsciiCase(a, b) == Lowercase(a) = Lowercase(b)

\* str::trim_start_matches / trim_end_matches for one character class
RECURSIVE TrimStart(_, _)
TrimStart(text, class) ==
    IF text # <<>> /\ Head(text) \in class THEN TrimStart(Tail(text), class)
    ELSE text

RECURSIVE TrimEnd(_, _)
TrimEnd(text, class) ==
    IF text # <<>> /\ text[Len(text)] \in class
    THEN TrimEnd(SubSeq(text, 1, Len(text) - 1), class)
    ELSE text

\* str::trim
Trim(text) == TrimEnd(TrimStart(text, {" "}), {" "})

\* str::contains
Contains(text, pat) ==
    \E i \in 1..(Len(text) - Len(pat) + 1) :
        SubSeq(text, i, i + Len(pat) - 1) = pat

\* sanitize_id, the loop over the characters: out and last_dash
RECURSIVE SanitizeFrom(_, _, _)
SanitizeFrom(text, out, last_dash) ==
    IF text = <<>> THEN out
    ELSE IF IsAsciiAlphanumeric(ToAsciiLowercase(Head(text)))
    THEN SanitizeFrom(Tail(text), Append(out, ToAsciiLowercase(Head(text))), FALSE)
    ELSE IF /\ \/ IsAsciiWhitespace(Head(text))
               \/ Head(text) \in {"-", "_"}
            /\ ~last_dash
    THEN SanitizeFrom(Tail(text), Append(out, "-"), TRUE)
    ELSE SanitizeFrom(Tail(text), out, last_dash)

\* HassUiConfig::sanitize_id
SanitizeId(text) ==
    TrimEnd(TrimStart(SanitizeFrom(text, <<>>, FALSE), {"-"}), {"-"})

\* HassUiConfig::DEFAULT_ROOM_ID and DEFAULT_ROOM_NAME as text
DefaultRoomIdText ==
    <<"h", "o", "m", "e", "-", "a", "s", "s", "i", "s", "t", "a", "n", "t">>
DEFAULT_ROOM_NAME ==
    <<"H", "o", "m", "e", " ", "A", "s", "s", "i", "s", "t", "a", "n", "t">>

\* `.iter().map(|x| x.trim().to_string()).filter(|x| !x.is_empty()).collect()`
TrimAll(list) ==
    SelectSeq([i \in 1..Len(list) |-> Trim(list[i])], LAMBDA x : x # <<>>)

\* normalize, the room loop: the id a room gets
NormalizedRoomId(room) ==
    IF SanitizeId(room.id) # <<>> THEN SanitizeId(room.id)
    ELSE SanitizeId(room.name)

\* The room loop without the test on `seen`.
PushRoomSeen(normalized, id, room) ==
    IF id = <<>> THEN normalized
    ELSE Append(normalized,
                [id |-> id, name |-> Trim(room.name),
                 source_area |-> {Trim(x) : x \in room.source_area} \ {<<>>}])

\* normalize, the room loop: skip an empty or seen id, else push the room
PushRoom(normalized, id, room) ==
    IF id = <<>> \/ \E i \in 1..Len(normalized) : normalized[i].id = id
    THEN normalized
    ELSE Append(normalized,
                [id |-> id, name |-> Trim(room.name),
                 source_area |-> {Trim(x) : x \in room.source_area} \ {<<>>}])

RECURSIVE NormalizeRooms(_, _)
NormalizeRooms(rooms, normalized) ==
    IF rooms = <<>> THEN normalized
    ELSE NormalizeRooms(Tail(rooms),
                        PushRoom(normalized, NormalizedRoomId(Head(rooms)),
                                 Head(rooms)))

\* ensure_default_room: the room it inserts
DefaultRoomConfig ==
    [id |-> DefaultRoomIdText, name |-> DEFAULT_ROOM_NAME, source_area |-> {}]

\* ensure_default_room without the `any` test: the room is always inserted.
EnsureDefaultRoomAlways(rooms) == <<DefaultRoomConfig>> \o rooms

\* HassUiConfig::ensure_default_room
EnsureDefaultRoom(rooms) ==
    IF \E i \in 1..Len(rooms) : rooms[i].id = DefaultRoomIdText THEN rooms
    ELSE <<DefaultRoomConfig>> \o rooms

\* HassEntityPreference::default()
NoPreference == [visible |-> {}, room_id |-> {}, alias |-> {}]

\* entity_preferences.entry(entity_id).or_default()
PrefEntry(prefs, e) == IF e \in DOMAIN prefs THEN prefs[e] ELSE NoPreference

\* normalize: `visible.get_or_insert(false)` for each hidden or excluded id
RECURSIVE HideEach(_, _)
HideEach(prefs, ids) ==
    IF ids = <<>> THEN prefs
    ELSE HideEach(MapInsert(prefs, Head(ids),
                            [PrefEntry(prefs, Head(ids)) EXCEPT
                                !.visible = IF @ = {} THEN {FALSE} ELSE @]),
                  Tail(ids))

\* normalize: what the closure of entity_preferences.retain makes of a pref
RetainedPref(pref, room_ids) ==
    [pref EXCEPT !.room_id = @ \cap room_ids,
                 !.alias = {Trim(x) : x \in @} \ {<<>>}]

\* normalize: entity_preferences.retain
RetainPrefs(prefs, room_ids) ==
    [e \in {x \in DOMAIN prefs :
               /\ Trim(x) # <<>>
               /\ RetainedPref(prefs[x], room_ids) # NoPreference}
        |-> RetainedPref(prefs[e], room_ids)]

\* normalize up to `self.ensure_default_room()`
NormalizeLists(cfg) ==
    [cfg EXCEPT !.hidden_entity_ids = TrimAll(@),
                !.exclude_entity_ids = TrimAll(@),
                !.exclude_name_patterns = TrimAll(@),
                !.ignored_area_names = TrimAll(@),
                !.rooms = EnsureDefaultRoom(NormalizeRooms(@, <<>>))]

\* normalize from the loop over the hidden and excluded ids on
NormalizePrefs(cfg) ==
    [cfg EXCEPT !.entity_preferences =
        RetainPrefs(HideEach(@, cfg.hidden_entity_ids \o cfg.exclude_entity_ids),
                    {cfg.rooms[i].id : i \in 1..Len(cfg.rooms)})]

\* HassUiConfig::normalize on the textual configuration
UiNormalize(cfg) == NormalizePrefs(NormalizeLists(cfg))

\* HassUiConfig::is_manually_hidden
IsManuallyHidden(cfg, e) ==
    \/ PrefEntry(cfg.entity_preferences, e).visible = {FALSE}
    \/ \E i \in 1..Len(cfg.hidden_entity_ids) :
          EqIgnoreAsciiCase(cfg.hidden_entity_ids[i], e)
    \/ \E i \in 1..Len(cfg.exclude_entity_ids) :
          EqIgnoreAsciiCase(cfg.exclude_entity_ids[i], e)

\* should_include, the test on exclude_name_patterns
NamePatternMatches(cfg, e, name) ==
    \E i \in 1..Len(cfg.exclude_name_patterns) :
        /\ cfg.exclude_name_patterns[i] # <<>>
        /\ \/ Contains(Lowercase(e), Lowercase(cfg.exclude_name_patterns[i]))
           \/ Contains(Lowercase(name), Lowercase(cfg.exclude_name_patterns[i]))

\* should_include with the lists and patterns consulted before the
\* per-entity `visible`.
UiShouldIncludeListsFirst(cfg, e, name, available) ==
    IF ~cfg.include_unavailable /\ ~available THEN FALSE
    ELSE IF IsManuallyHidden(cfg, e) THEN FALSE
    ELSE IF NamePatternMatches(cfg, e, name) THEN FALSE
    ELSE IF PrefEntry(cfg.entity_preferences, e).visible # {}
    THEN PrefEntry(cfg.entity_preferences, e).visible = {TRUE}
    ELSE cfg.default_add_new_devices_to_hue

\* HassUiConfig::should_include on the textual configuration
UiShouldInclude(cfg, e, name, available) ==
    IF ~cfg.include_unavailable /\ ~available THEN FALSE
    ELSE IF PrefEntry(cfg.entity_preferences, e).visible # {}
    THEN PrefEntry(cfg.entity_preferences, e).visible = {TRUE}
    ELSE IF IsManuallyHidden(cfg, e) THEN FALSE
    ELSE IF NamePatternMatches(cfg, e, name) THEN FALSE
    ELSE cfg.default_add_new_devices_to_hue

\* HassUiConfig::set_entity_hidden on the textual configuration
UiSetEntityHidden(cfg, e, hidden) ==
    UiNormalize(
        [cfg EXCEPT
            !.entity_preferences =
                MapInsert(@, e, [PrefEntry(@, e) EXCEPT !.visible = {~hidden}]),
            !.hidden_entity_ids =
                SelectSeq(@, LAMBDA x : ~EqIgnoreAsciiCase(x, e))
                    \o (IF hidden THEN <<e>> ELSE <<>>),
            !.exclude_entity_ids =
                SelectSeq(@, LAMBDA x : ~EqIgnoreAsciiCase(x, e))])

\* HassUiConfig::set_entity_room on the textual configuration
UiSetEntityRoom(cfg, e, room_id) ==
    UiNormalize(
        [cfg EXCEPT !.entity_preferences =
            MapInsert(@, e, [PrefEntry(@, e) EXCEPT !.room_id = room_id])])

\* HassUiState::rename_room on the textual configuration
UiRenameRoom(cfg, room_id, name) ==
    IF Trim(name) = <<>> THEN cfg
    ELSE UiNormalize(
             [cfg EXCEPT !.rooms =
                 [i \in 1..Len(@) |->
                     IF /\ @[i].id = room_id
                        /\ \A j \in 1..(i - 1) : @[j].id # room_id
                     THEN [@[i] EXCEPT !.name = Trim(name)]
                     ELSE @[i]]])

(***************************************************************************)
(* SpecUi: a UI configuration as it is read from disk or sent by a client  *)
(* (any lists, rooms and preferences), normalized, edited per entity and   *)
(* asked whether an entity is included.                                    *)
(***************************************************************************)
\* Bound: the rooms of a configuration that is read.
MaxRoomList == 2

\* Entity ids, display names and patterns
EntityA == <<"l", ".", "a">>
EntityTexts == {EntityA, <<"L", ".", "A">>}
Blank == <<" ">>
KitchenId == <<"k", "-", "2">>

\* The configurations that differ in what should_include reads.
IncludeConfigs ==
    [hidden_entity_ids : {<<>>, <<EntityA>>, <<<<"L", ".", "A">>>>, <<Blank>>},
     exclude_entity_ids : {<<>>, <<EntityA>>},
     exclude_name_patterns : {<<>>, <<<<"A">>>>, <<<<>>>>},
     ignored_area_names : {<<>>},
     include_unavailable : BOOLEAN,
     rooms : {<<>>},
     entity_preferences :
         {EmptyMap} \cup {(EntityA :> [NoPreference EXCEPT !.visible = v]) :
                             v \in {{}, {TRUE}, {FALSE}}},
     default_add_new_devices_to_hue : BOOLEAN]

\* The rooms a configuration may list: the default room, a room whose id
\* sanitizes to the default id under another name, a room without id, a
\* room with a sanitized id.
RoomConfigs ==
    {DefaultRoomConfig,
     [id |-> DEFAULT_ROOM_NAME, name |-> <<"k">>, source_area |-> {}],
     [id |-> <<>>, name |-> <<" ", "K", "_", "_", "2", " ">>, source_area |-> {}],
     [id |-> KitchenId, name |-> <<"k", " ">>, source_area |-> {}]}

RECURSIVE SeqsUpTo(_, _)
SeqsUpTo(set, n) ==
    IF n = 0 THEN {<<>>}
    ELSE SeqsUpTo(set, n - 1)
             \cup {Append(q, x) : q \in SeqsUpTo(set, n - 1), x \in set}

\* The configurations that differ in what normalize rewrites.
NormalizeConfigs ==
    [hidden_entity_ids : {<<>>, <<EntityA>>, <<Blank>>},
     exclude_entity_ids : {<<>>},
     exclude_name_patterns : {<<>>, <<Blank>>},
     ignored_area_names : {<<>>},
     include_unavailable : {TRUE},
     rooms : SeqsUpTo(RoomConfigs, MaxRoomList),
     entity_preferences :
         {EmptyMap, (Blank :> [NoPreference EXCEPT !.visible = {TRUE}])}
         \cup {(EntityA :> [visible |-> {}, room_id |-> r, alias |-> a]) :
                  r \in {{}, {KitchenId}, {<<"K">>}}, a \in {{}, {Blank}, {<<"k", " ">>}}},
     default_add_new_devices_to_hue : {FALSE}]

UiInit ==
    /\ StreamIdle
    /\ BusIdle
    /\ res = CoreRes /\ aux = EmptyRes /\ emitted = <<>> /\ woke = FALSE
    /\ rt = [enabled |-> TRUE, token |-> TRUE]
    /\ hass = [pc |-> "start"]
    /\ queue = <<>> /\ uilog = <<>> /\ hacalls = <<>>
    /\ ha = [states |-> {}, areas |-> EmptyMap] /\ clock = 0
    /\ \E cfg \in IncludeConfigs \cup NormalizeConfigs :
          ui = [config |-> cfg, entities |-> EmptyMap, sync |-> "idle"]
    /\ last = [op |-> "load"]

\* What an operation on the configuration leaves behind.
UiCommit(cfg, result) ==
    /\ ui' = [ui EXCEPT !.config = cfg]
    /\ last' = result
    /\ UNCHANGED <<res, aux, emitted, woke, streamVars, busVars, rt, hass, queue, uilog,
                   hacalls, ha, clock>>

\* HassUiState::set_config / config_normalized: the configuration normalized
UiConfigNormalized ==
    UiCommit(UiNormalize(ui.config), [op |-> "normalize"])

\* PATCH /entity with `hidden`
UiPatchHidden ==
    \E e \in EntityTexts : \E hidden \in BOOLEAN :
        UiCommit(UiSetEntityHidden(ui.config, e, hidden),
                 [op |-> "set_entity_hidden"])

\* PATCH /entity with `room_id`
UiPatchRoom ==
    \E e \in EntityTexts : \E room \in {{}, {KitchenId}, {<<"K">>}} :
        UiCommit(UiSetEntityRoom(ui.config, e, room), [op |-> "set_entity_room"])

\* A caller asks should_include(entity_id, display_name, available).
UiAskInclude ==
    \E e \in EntityTexts : \E name \in {<<"k">>, <<"L", "a">>} :
        \E available \in BOOLEAN :
            UiCommit(ui.config,
                     [op |-> "should_include", entity_id |-> e,
                      available |-> available,
                      val |-> UiShouldInclude(ui.config, e, name, available)])

\* PUT /rooms
UiPutRoom ==
    \E room_id \in {DefaultRoomIdText, KitchenId} : \E name \in {<<"k">>, Blank} :
        UiCommit(UiRenameRoom(ui.config, room_id, name),
                 [op |-> IF Trim(name) = <<>> THEN "rename_room_ignored"
                         ELSE "rename_room"])

UiNext ==
    \/ UiConfigNormalized
    \/ UiPatchHidden
    \/ UiPatchRoom
    \/ UiPutRoom
    \/ UiAskInclude

SpecUi == UiInit /\ [][UiNext]_vars

(***************************************************************************)
(* Properties of the UI configuration (checked under SpecUi).              *)
(***************************************************************************)
\* The operations that leave a normalized configuration behind.
NormalizingOps == {"normalize", "set_entity_hidden", "set_entity_room"}

\* C11: when should_include was asked about an entity whose preference
\* has `visible` set to v, it returned v whatever the hidden and excluded
\* ids, the name patterns and default_add_new_devices_to_hue are, except
\* that an unavailable entity is excluded first when include_unavailable
\* is false.
InclusionPrecedence ==
    last.op = "should_include" =>
        IF ~ui.config.include_unavailable /\ ~last.available
        THEN last.val = FALSE
        ELSE \A v \in PrefEntry(ui.config.entity_preferences,
                                last.entity_id).visible : last.val = v

\* C11 witness: an entity on the hidden list, with the default being not to
\* add, was included because its preference says visible.
VisibleOverridesHiddenList ==
    /\ last.op = "should_include" /\ last.val = TRUE
    /\ PrefEntry(ui.config.entity_preferences, last.entity_id).visible = {TRUE}
    /\ \E i \in 1..Len(ui.config.hidden_entity_ids) :
          EqIgnoreAsciiCase(ui.config.hidden_entity_ids[i], last.entity_id)
    /\ ~ui.config.default_add_new_devices_to_hue

\* C12: a configuration that normalize has produced is left as it is by
\* normalize: same lists, same rooms in the same order, same preferences.
NormalizeIdempotent ==
    last.op \in NormalizingOps => UiNormalize(ui.config) = ui.config

\* C12 witness: normalize has given a room without id the id sanitized from
\* its name, put the default room in front of it and kept a preference for
\* that room.
NormalizeRewroteRooms ==
    /\ last.op = "normalize"
    /\ Len(ui.config.rooms) = 2
    /\ ui.config.rooms[1].id = DefaultRoomIdText
    /\ ui.config.rooms[2].id = KitchenId
    /\ ui.config.rooms[2].name = <<"K", "_", "_", "2">>
    /\ PrefEntry(ui.config.entity_preferences, EntityA).room_id = {KitchenId}

\* C13: after normalize and after every mutation of the configuration the
\* first room is the default room, id "home-assistant", name
\* "Home Assistant".
DefaultRoomFirst ==
    last.op \in NormalizingOps \cup {"rename_room"} =>
        /\ ui.config.rooms # <<>>
        /\ ui.config.rooms[1] = DefaultRoomConfig

\* C13 witness: normalize has left the default room behind another room.
DefaultRoomNotFirst ==
    /\ last.op = "normalize"
    /\ Len(ui.config.rooms) = 2
    /\ ui.config.rooms[1].id = KitchenId
    /\ ui.config.rooms[2].id = DefaultRoomIdText


(***************************************************************************)
(* SpecSync: the adapter importing lights, switches and binary sensors.    *)
(* Home Assistant holds a snapshot of entity states and areas, which       *)
(* changes between handlers; the user edits rooms and room preferences;    *)
(* the process restarts, which empties the adapter's maps and keeps the    *)
(* persisted store and UI configuration.  The websocket is connected       *)
(* whenever the loop runs, every new entity is added to Hue, and Home      *)
(* Assistant answers the requests (Spec has the failing ones).             *)
(***************************************************************************)
\* Bounds: the readings of Utc::now() and the runs of the process in one
\* behaviour.
MaxClock == 2
MaxRuns == 2

SyncEntityIds == {"light.a", "switch.b", "binary_sensor.c"}

\* The states Home Assistant can hold for each entity.
SyncStates ==
    {[entity_id |-> "light.a", state |-> "on", modes |-> {},
      attributes |-> {"brightness"}, device_class |-> ""],
     [entity_id |-> "switch.b", state |-> "on", modes |-> {},
      attributes |-> {}, device_class |-> ""],
     [entity_id |-> "binary_sensor.c", state |-> "on", modes |-> {},
      attributes |-> {}, device_class |-> "motion"],
     [entity_id |-> "binary_sensor.c", state |-> "off", modes |-> {},
      attributes |-> {}, device_class |-> "door"]}

\* Home Assistant at first: the light, the switch and a motion sensor, in
\* no area.
FirstSnapshot ==
    [states |-> {st \in SyncStates : st.device_class # "door"},
     areas |-> EmptyMap]

\* The UI configuration at first: every new entity is added to Hue; the
\* user may have made the room r1 and may prefer it for the light.
FirstConfigs ==
    {SetEntityRoom([DefaultUiConfig EXCEPT
                       !.default_add_new_devices_to_hue = TRUE,
                       !.sync_hass_areas_to_rooms = areas,
                       !.rooms = @ \cup rooms],
                   "light.a", pref) :
        areas \in BOOLEAN, rooms \in {{}, {"r1"}}, pref \in {{}, {"r1"}}}

\* A device of another backend: a lamp that zigbee2mqtt imported.
link_z2m_dev == Deterministic("device", <<"z2m", "lamp">>)

Z2mDevice ==
    [rtype |-> "device", services |-> {},
     manufacturer_name |-> "IKEA", model_id |-> "TRADFRI bulb"]

\* GET /api/states and the area registry, answered from the snapshot.
SnapshotReply == [ok |-> TRUE, states |-> ha.states, areas |-> ha.areas]

\* GET /api/states/<id> and the area of the entity.
EntityReply(e) ==
    [ok |-> \E st \in ha.states : st.entity_id = e,
     states |-> {st \in ha.states : st.entity_id = e},
     areas |-> ha.areas]

\* The handler read the clock: a report it wrote carries this reading.
ClockRead(H) ==
    \E x \in DOMAIN H.st.res :
        /\ "report" \in DOMAIN H.st.res[x]
        /\ H.st.res[x].report.last_updated = H.now

\* What a handler of the adapter leaves behind; `synced` are the entities
\* it passed to sync_single_entity, `again` tells that it repeats the
\* handler before it with nothing changed in between.
SyncCommit(H, op, synced) ==
    /\ res' = H.st.res
    /\ aux' = H.st.aux
    /\ emitted' = H.st.ev
    /\ woke' = H.st.woke
    /\ last' = [op |-> op, err |-> H.st.err,
                synced |-> IF HOk(H) THEN synced \cap DOMAIN H.hass.entity_map
                           ELSE {},
                again |-> last.op = op /\ last.err = "ok"]
    /\ hass' = H.hass
    /\ ui' = H.ui
    /\ uilog' = H.log
    /\ hacalls' = H.calls
    /\ clock' = IF ClockRead(H) THEN clock + 1 ELSE clock
    /\ clock' <= MaxClock
    /\ UNCHANGED <<streamVars, busVars, rt, queue, ha>>

\* What a step of the environment leaves behind.
EnvCommit(op) ==
    /\ last' = [op |-> op, err |-> "ok", synced |-> {}, again |-> FALSE]
    /\ emitted' = <<>>
    /\ woke' = FALSE
    /\ uilog' = <<>>
    /\ hacalls' = <<>>
    /\ UNCHANGED <<res, aux, streamVars, busVars, rt, queue, clock>>

SyncInit ==
    /\ StreamIdle
    /\ BusIdle
    /\ \E cfg \in FirstConfigs :
          ui = [config |-> cfg, entities |-> EmptyMap, sync |-> "idle"]
    /\ rt = [enabled |-> TRUE, token |-> TRUE]
    /\ hass = [pc |-> "start", entity_map |-> EmptyMap, light_map |-> EmptyMap,
               device_map |-> EmptyMap, room_map |-> EmptyMap,
               sensor_map |-> EmptyMap, scene_map |-> EmptyMap,
               token |-> TRUE, ws |-> TRUE, run |-> 1]
    /\ queue = <<>> /\ uilog = <<>> /\ hacalls = <<>>
    /\ ha = FirstSnapshot
    /\ clock = 0
    /\ res = StAdd(StBegin(CoreRes, EmptyRes), link_z2m_dev, Z2mDevice).res
    /\ aux = EmptyRes /\ emitted = <<>> /\ woke = FALSE
    /\ last = [op |-> "init", err |-> "ok", synced |-> {}, again |-> FALSE]

\* event_loop, before the loop: run_sync("startup")
SyncStartup ==
    /\ hass.pc = "start"
    /\ SyncCommit([RunSync(HBegin, SnapshotReply) EXCEPT !.hass.pc = "loop"],
                  "HassSync", SyncEntityIds)

\* handle_backend_event, BackendRequest::HassSync
SyncFull ==
    /\ hass.pc = "loop"
    /\ SyncCommit(RunSync(HBegin, SnapshotReply), "HassSync", SyncEntityIds)

\* handle_backend_event, BackendRequest::HassUpsertEntity
SyncUpsert ==
    /\ hass.pc = "loop"
    /\ \E e \in SyncEntityIds :
          SyncCommit(SyncEntityById(HBegin, e, EntityReply(e)), "HassUpsertEntity",
                     {i.entity_id : i \in ImportedIncluded(ui.config,
                                                           Parsed(EntityReply(e)))})

\* event_loop, the websocket arm: the state of an entity as the snapshot
\* holds it.
SyncStateChanged ==
    /\ hass.pc = "loop"
    /\ \E state \in ha.states :
          SyncCommit(HandleStateUpdate(HBegin, state), "state_changed",
                     {i.entity_id : i \in ImportedIncluded(ui.config,
                                        {ParseImportedEntity(state, {})})})

\* handle_backend_event, BackendRequest::HassUpdateRooms
SyncUpdateRooms ==
    /\ hass.pc = "loop"
    /\ SyncCommit(RefreshRoomsFromUiConfig(HBegin), "HassUpdateRooms", {})

\* Home Assistant changes, once: an entity is removed, the binary sensor
\* gets the device class of a door, or the light is put into the area.
HaChange ==
    /\ ha = FirstSnapshot
    /\ ha' \in {[ha EXCEPT !.states = @ \ {st}] : st \in ha.states}
              \cup {[ha EXCEPT !.states =
                         {IF st.device_class = "motion"
                          THEN [st EXCEPT !.device_class = "door"] ELSE st :
                             st \in @}],
                    [ha EXCEPT !.areas = [e \in {"light.a"} |-> "Kitchen"]]}
    /\ ha' # ha
    /\ EnvCommit("ha_changed")
    /\ UNCHANGED <<ui, hass>>

\* DELETE /rooms: the user removes a room.
UiChange ==
    /\ \E cfg \in {RemoveRoom(ui.config, id) : id \in ui.config.rooms} :
          /\ cfg # ui.config
          /\ ui' = [ui EXCEPT !.config = cfg]
    /\ EnvCommit("ui_changed")
    /\ UNCHANGED <<ha, hass>>

\* The process restarts: the store and the UI configuration were persisted,
\* the adapter's maps and the entity summaries start empty.
Restart ==
    /\ hass.pc = "loop"
    /\ hass.run < MaxRuns
    /\ hass' = [pc |-> "start", entity_map |-> EmptyMap, light_map |-> EmptyMap,
                device_map |-> EmptyMap, room_map |-> EmptyMap,
                sensor_map |-> EmptyMap, scene_map |-> EmptyMap,
                token |-> TRUE, ws |-> TRUE, run |-> hass.run + 1]
    /\ ui' = [ui EXCEPT !.entities = EmptyMap, !.sync = "idle"]
    /\ EnvCommit("restart")
    /\ UNCHANGED ha

SyncNext ==
    \/ SyncStartup
    \/ SyncFull
    \/ SyncUpsert
    \/ SyncStateChanged
    \/ SyncUpdateRooms
    \/ HaChange
    \/ UiChange
    \/ Restart

SpecSync == SyncInit /\ [][SyncNext]_vars


(***************************************************************************)
(* Properties of the import (checked under SpecSync).                      *)
(***************************************************************************)
\* C14: a full sync that follows a successful full sync, with the snapshot
\* of Home Assistant and the UI configuration as that one left them, emits
\* no add, update or delete event except for grouped lights.
FullSyncIdempotent ==
    (last.op = "HassSync" /\ last.again /\ last.err = "ok") =>
        \A i \in 1..Len(emitted) : emitted[i].rtype = "grouped_light"

\* C14 witness: the second full sync deleted the contact service of the
\* door sensor and added it again.
SecondSyncReaddsContact ==
    /\ last.op = "HassSync" /\ last.again /\ last.err = "ok"
    /\ \E i \in 1..Len(emitted) : \E j \in 1..Len(emitted) :
          /\ i < j
          /\ emitted[i].kind = "delete" /\ emitted[i].rtype = "contact"
          /\ emitted[j].kind = "add" /\ emitted[j].rid = emitted[i].rid


\* The rooms in the store (every room in SpecSync was made by the adapter).
StoredRooms(r) == {LinkTo("room", x) : x \in {y \in DOMAIN r : r[y].rtype = "room"}}

\* C15: after a successful full sync or HassUpdateRooms the rooms in the
\* store are exactly the rooms of the UI configuration, each with its
\* grouped light, also when the process restarted in between.
RoomsMatchConfig ==
    (last.op \in {"HassSync", "HassUpdateRooms"} /\ last.err = "ok") =>
        /\ StoredRooms(res) = {RoomBinding(id).room_link : id \in ui.config.rooms}
        /\ \A id \in ui.config.rooms :
              /\ Present(res, RoomBinding(id).grouped_light_link)
              /\ RoomBinding(id).grouped_light_link
                     \in res[RoomBinding(id).room_link.rid].services

\* C15 witness: the room r1 was stored by the first run of the process and
\* removed from the configuration after the restart; the full sync of the
\* second run succeeded and the room is still stored.
StaleRoomSurvivesRestart ==
    /\ last.op = "HassSync" /\ last.err = "ok"
    /\ hass.run = 2
    /\ "r1" \notin ui.config.rooms
    /\ Present(res, RoomBinding("r1").room_link)


\* The resource type of the typed service of an entity, from what Home
\* Assistant holds for it: a light for lights and switches, a motion or a
\* contact for binary sensors.
ServiceTypeOf(e) ==
    IF \E st \in ha.states : st.entity_id = e /\ st.device_class = "door"
    THEN "contact"
    ELSE IF \E st \in ha.states : st.entity_id = e /\ st.device_class = "motion"
    THEN "motion"
    ELSE "light"

\* The deterministic link of the typed service of an entity.
ServiceLinkOf(e) ==
    Deterministic(ServiceTypeOf(e), <<"hass", BackendName, e, ServiceTypeOf(e)>>)

ZbcLinkOf(e) ==
    Deterministic("zigbee_connectivity", <<"hass", BackendName, e, "zbc">>)

\* C16: after a handler that passed an entity to sync_single_entity has
\* completed, the store holds the entity's Device, ZigbeeConnectivity and
\* typed service at their deterministic ids, and the services of the Device
\* contain the links of both.
EntityResourcesComplete ==
    (last.op \in {"HassSync", "HassUpsertEntity", "state_changed"}
     /\ last.err = "ok") =>
        \A e \in last.synced :
            /\ Present(res, DeviceLinkFor(e))
            /\ Present(res, ZbcLinkOf(e))
            /\ Present(res, ServiceLinkOf(e))
            /\ {ServiceLinkOf(e), ZbcLinkOf(e)} \subseteq res[DeviceLinkFor(e).rid].services

\* C16 witness: the door sensor was synced again; its Device and its
\* Contact are stored and the Device does not list the Contact.
ContactLinkPurged ==
    /\ last.op \in {"HassSync", "HassUpsertEntity", "state_changed"}
    /\ last.err = "ok"
    /\ "binary_sensor.c" \in last.synced
    /\ Present(res, DeviceLinkFor("binary_sensor.c"))
    /\ Present(res, Deterministic("contact",
                        <<"hass", BackendName, "binary_sensor.c", "contact">>))
    /\ Deterministic("contact", <<"hass", BackendName, "binary_sensor.c", "contact">>)
           \notin res[DeviceLinkFor("binary_sensor.c").rid].services


\* A Device with manufacturer "Home Assistant" and a model id that starts
\* with "hass-".
MadeForHass(o) ==
    /\ o.rtype = "device"
    /\ "manufacturer_name" \in DOMAIN o
    /\ o.manufacturer_name = "Home Assistant"
    /\ o.model_id \in {"hass-light", "hass-switch", "hass-binary_sensor"}

\* C17: after a successful full sync every Device made for Home Assistant
\* is the device of an entity the sync included, and the sync deleted no
\* Device of another manufacturer or model id.
PruneExact ==
    /\ [](last.op = "HassSync" /\ last.err = "ok" =>
            \A rid \in DOMAIN res :
                MadeForHass(res[rid]) =>
                    rid \in {DeviceLinkFor(e).rid : e \in last.synced})
    /\ [][last'.op = "HassSync" /\ last'.err = "ok" =>
            \A rid \in DOMAIN res :
                (res[rid].rtype = "device" /\ ~MadeForHass(res[rid])) =>
                    rid \in DOMAIN res']_vars

\* C17 witness: in its second run the process found the device of an
\* entity that Home Assistant no longer has, pruned it, and the devices of
\* the bridge and of zigbee2mqtt are still stored.
PrunedPersistedDevice ==
    /\ last.op = "HassSync" /\ last.err = "ok"
    /\ hass.run = 2
    /\ \E i \in 1..Len(uilog) :
          uilog[i] = "Pruned stale Home Assistant devices from Hue bridge"
    /\ \E e \in SyncEntityIds : DeviceLinkFor(e).rid \notin DOMAIN res
    /\ {link_z2m_dev.rid, link_bridge_dev.rid} \subseteq DOMAIN res


\* The room the precedence rule chooses for an entity: the room of the
\* user's preference if that room is configured, else the room made for the
\* entity's area when areas are synced to rooms, else the default room.
ChosenRoom(e) ==
    LET preferred ==
            IF e \in DOMAIN ui.config.entity_preferences
            THEN ui.config.entity_preferences[e].room_id \cap ui.config.rooms
            ELSE {}
        mapped ==
            IF ui.config.sync_hass_areas_to_rooms /\ e \in DOMAIN ha.areas
            THEN {id \in DOMAIN ui.config.source_area :
                     ui.config.source_area[id] = ha.areas[e]}
            ELSE {}
    IN  IF preferred # {} THEN preferred
        ELSE IF mapped # {} THEN mapped
        ELSE {DEFAULT_ROOM_ID}

\* The entities whose room a handler decides: the one entity of an upsert,
\* every imported entity of a full sync or a HassUpdateRooms.
Placed ==
    IF last.op = "HassUpsertEntity" THEN last.synced ELSE DOMAIN hass.entity_map

\* C18: after a successful full sync, single-entity upsert or
\* HassUpdateRooms, the Device of each included entity is a child of the
\* room that the precedence rule chooses.
RoomAssignmentPrecedence ==
    (last.op \in {"HassSync", "HassUpsertEntity", "HassUpdateRooms"}
     /\ last.err = "ok") =>
        \A e \in Placed : \A id \in ChosenRoom(e) :
            /\ Present(res, RoomBinding(id).room_link)
            /\ DeviceLinkFor(e) \in res[RoomBinding(id).room_link.rid].children

\* C18 witness: the light has no room preference and its area has a room;
\* after HassUpdateRooms its Device is a child of the default room.
AreaRoomLostOnUpdateRooms ==
    /\ last.op = "HassUpdateRooms" /\ last.err = "ok"
    /\ "light.a" \in DOMAIN hass.entity_map
    /\ ChosenRoom("light.a") = {"area-kitchen"}
    /\ DeviceLinkFor("light.a")
           \in res[RoomBinding(DEFAULT_ROOM_ID).room_link.rid].children
    /\ DeviceLinkFor("light.a")
           \notin res[RoomBinding("area-kitchen").room_link.rid].children

(***************************************************************************)
(* The backend request bus and the Resource Store mutex (SpecBus).         *)
(*                                                                         *)
(* Resources.backend_updates is a tokio broadcast channel: a receiver made *)
(* by subscribe() sees the requests sent after it was made, in the order   *)
(* of the sends, and recv() fails with Lagged once the request it is due   *)
(* was overwritten.  Each adapter runs one loop that receives a request    *)
(* and awaits its handler.  A handler is a straight line of steps:         *)
(*   "lock"    self.state.lock().await                                     *)
(*   "store"   reads and writes through the guard                          *)
(*   "unlock"  drop(lock), or the end of the guard's scope                 *)
(*   "io?"     an awaited network operation whose error is returned (?)    *)
(*   "io"      an awaited network operation whose error is dealt with      *)
(* Which line a request takes depends on its payload and on the adapter's  *)
(* maps (rmap, entity_map, scene_map, entstream); the loop picks one of    *)
(* the lines the handler has.  The store operations of the handlers are    *)
(* the subject of Spec and SpecLoop; here only their place counts.         *)
(***************************************************************************)
MaxSent == 2
BusCap == 1

Requests ==
    {"LightUpdate", "SceneCreate", "SceneUpdate", "EntertainmentStop", "HassSync"}

Locked == <<"lock", "store", "unlock">>

\* Z2mBackend::handle_backend_event and the handlers it awaits.
Z2mPrograms(kind) ==
    CASE kind = "LightUpdate" ->
            \* no topic for the link; one update; one update and the Hue effects
            {<<>>, Locked \o <<"io?">>, Locked \o <<"io?", "io?">>}
      [] kind = "SceneCreate" ->
            \* aux_set, send_scene_store, add, drop
            {<<>>, <<"lock", "store", "io?", "store", "unlock">>}
      [] kind = "SceneUpdate" ->
            \* recall: statuses, drop, lock again, learn, send_scene_recall;
            \* otherwise send_scene_store, update, drop
            {Locked,
             Locked \o <<"lock", "store", "io?", "unlock">>,
             <<"lock", "store", "io?", "store", "unlock">>}
      [] kind = "EntertainmentStop" ->
            \* no stream; or lock, stop_stream, stop_streaming, drop
            {<<>>, <<"lock", "io?", "store", "unlock">>}
      [] OTHER -> {<<>>}

\* sync_entities, as run_sync awaits it: the requests to Home Assistant,
\* then the import under the guard; a failed request ends the sync.
SyncSteps == {<<"io">>, <<"io">> \o Locked}

\* HassBackend::handle_backend_event and the handlers it awaits.
HassPrograms(kind) ==
    CASE kind = "LightUpdate" ->
            {<<>>, <<"io?">>}
      [] kind = "SceneCreate" ->
            {Locked, Locked \o <<"io">>}
      [] kind = "SceneUpdate" ->
            \* no recall; turn_on_scene; the scene's actions one by one
            {Locked, Locked \o <<"io?">>, Locked \o Locked,
             Locked \o Locked \o <<"io?">>}
      [] kind = "HassSync" -> SyncSteps
      [] OTHER -> {<<>>}

Programs(a, kind) == IF a = "hass" THEN HassPrograms(kind) ELSE Z2mPrograms(kind)

\* What an adapter does before its loop: the startup sync of the HA adapter.
BeforeLoop(a) == IF a = "hass" THEN SyncSteps ELSE {<<>>}

Idle(t) == t.alive /\ t.prog = <<>> /\ t.req = 0 /\ ~t.waiting

\* A receiver that never reports a lag.
LaggedNever(t) == FALSE

\* Receiver::recv: the receiver has fallen behind by more than the capacity.
Lagged(t) == Len(bus) - t.next > BusCap

\* A loop that polled its receiver whenever a request is due.
MayRecvAnytime(t) == t.alive

\* The loop polls its receiver when it is not inside an arm of its select.
MayRecv(t) == Idle(t)

Holds(a) == mutex = a

\* Service::run: subscribe under the store guard, then the loop.  The
\* service manager starts a run again after it ended.
Subscribe(a) ==
    /\ ~task[a].alive
    /\ mutex = "free"
    /\ \E p \in BeforeLoop(a) :
          task' = [task EXCEPT ![a] =
                      [alive |-> TRUE, first |-> Len(bus), next |-> Len(bus), req |-> 0,
                       prog |-> p,
                       waiting |-> FALSE, trace |-> <<>>, err |-> "none"]]
    /\ UNCHANGED <<bus, mutex, storeVars, streamVars, adapterVars>>

\* A route takes the store guard, and gives it back.
HttpLock ==
    /\ mutex = "free"
    /\ mutex' = "http"
    /\ UNCHANGED <<bus, task, storeVars, streamVars, adapterVars>>

HttpUnlock ==
    /\ mutex = "http"
    /\ mutex' = "free"
    /\ UNCHANGED <<bus, task, storeVars, streamVars, adapterVars>>

\* Resources::backend_request, called through the guard: the send fails
\* when no receiver is subscribed.
BusSend(kind) ==
    /\ mutex = "http"
    /\ Len(bus) < MaxSent
    /\ \E a \in Adapters : task[a].alive
    /\ bus' = Append(bus, kind)
    /\ UNCHANGED <<mutex, task, storeVars, streamVars, adapterVars>>

\* event_loop: req = chan.recv(); the handler is awaited in the same arm.
Recv(a) ==
    /\ MayRecv(task[a])
    /\ task[a].next < Len(bus)
    /\ ~Lagged(task[a])
    /\ \E p \in Programs(a, bus[task[a].next + 1]) :
          task' = [task EXCEPT ![a] =
                      [@ EXCEPT !.next = @ + 1, !.req = task[a].next + 1,
                                !.prog = p, !.waiting = FALSE,
                                !.trace = Append(@, <<"begin", task[a].next + 1>>)]]
    /\ UNCHANGED <<bus, mutex, storeVars, streamVars, adapterVars>>

\* event_loop: let req = req?; a lagging receiver ends the run.
RecvLagged(a) ==
    /\ MayRecv(task[a])
    /\ Lagged(task[a])
    /\ task' = [task EXCEPT ![a] = [@ EXCEPT !.alive = FALSE, !.err = "Lagged"]]
    /\ UNCHANGED <<bus, mutex, storeVars, streamVars, adapterVars>>

\* event_loop: a state_changed event of the websocket, handled in its arm
\* (handle_state_update: the import of one state under the guard).
WsEvent ==
    /\ Idle(task["hass"])
    /\ task' = [task EXCEPT !["hass"] = [@ EXCEPT !.prog = Locked]]
    /\ UNCHANGED <<bus, mutex, storeVars, streamVars, adapterVars>>

Advance(a) == task' = [task EXCEPT ![a] = [@ EXCEPT !.prog = Tail(@)]]

Acquire(a) ==
    /\ task[a].prog # <<>> /\ Head(task[a].prog) = "lock"
    /\ mutex = "free"
    /\ mutex' = a
    /\ Advance(a)
    /\ UNCHANGED <<bus, storeVars, streamVars, adapterVars>>

StoreOp(a) ==
    /\ task[a].prog # <<>> /\ Head(task[a].prog) = "store"
    /\ Holds(a)
    /\ Advance(a)
    /\ UNCHANGED <<bus, mutex, storeVars, streamVars, adapterVars>>

Release(a) ==
    /\ task[a].prog # <<>> /\ Head(task[a].prog) = "unlock"
    /\ mutex' = "free"
    /\ Advance(a)
    /\ UNCHANGED <<bus, storeVars, streamVars, adapterVars>>

\* The handler reaches an awaited network operation.
AwaitBegin(a) ==
    /\ task[a].prog # <<>> /\ Head(task[a].prog) \in {"io", "io?"}
    /\ ~task[a].waiting
    /\ task' = [task EXCEPT ![a] = [@ EXCEPT !.waiting = TRUE]]
    /\ UNCHANGED <<bus, mutex, storeVars, streamVars, adapterVars>>

\* The operation completes; an error that the handler deals with leaves
\* it on its line.
AwaitEnd(a) ==
    /\ task[a].waiting
    /\ task' = [task EXCEPT ![a] = [@ EXCEPT !.waiting = FALSE, !.prog = Tail(@)]]
    /\ UNCHANGED <<bus, mutex, storeVars, streamVars, adapterVars>>

Ended(t) == IF t.req = 0 THEN t.trace ELSE Append(t.trace, <<"end", t.req>>)

\* The operation fails and the error is returned (?): the guards of the
\* handler are dropped, and handle_backend_event(req).await? ends the run.
AwaitFail(a) ==
    /\ task[a].waiting /\ Head(task[a].prog) = "io?"
    /\ task' = [task EXCEPT ![a] =
                   [@ EXCEPT !.waiting = FALSE, !.prog = <<>>, !.req = 0,
                             !.alive = FALSE, !.trace = Ended(task[a]),
                             !.err = "Failed"]]
    /\ mutex' = IF Holds(a) THEN "free" ELSE mutex
    /\ UNCHANGED <<bus, storeVars, streamVars, adapterVars>>

\* The handler returns Ok and the loop goes round.
Return(a) ==
    /\ task[a].alive /\ task[a].prog = <<>> /\ task[a].req # 0
    /\ task' = [task EXCEPT ![a] = [@ EXCEPT !.req = 0, !.trace = Ended(task[a])]]
    /\ UNCHANGED <<bus, mutex, storeVars, streamVars, adapterVars>>

BusInit ==
    /\ StreamIdle
    /\ BusIdle
    /\ AdapterIdle
    /\ res = CoreRes /\ aux = EmptyRes /\ emitted = <<>> /\ woke = FALSE
    /\ last = [op |-> "init"]

BusNext ==
    \/ \E a \in Adapters : Subscribe(a)
    \/ HttpLock
    \/ HttpUnlock
    \/ \E kind \in Requests : BusSend(kind)
    \/ \E a \in Adapters : Recv(a)
    \/ \E a \in Adapters : RecvLagged(a)
    \/ WsEvent
    \/ \E a \in Adapters : Acquire(a)
    \/ \E a \in Adapters : StoreOp(a)
    \/ \E a \in Adapters : Release(a)
    \/ \E a \in Adapters : AwaitBegin(a)
    \/ \E a \in Adapters : AwaitEnd(a)
    \/ \E a \in Adapters : AwaitFail(a)
    \/ \E a \in Adapters : Return(a)

SpecBus == BusInit /\ [][BusNext]_vars

(***************************************************************************)
(* Properties of the bus and the mutex (checked under SpecBus)             *)
(***************************************************************************)

\* C19: no adapter holds the Resource Store mutex while it awaits a
\* network operation (a Home Assistant call, a z2m websocket send).
LockDiscipline == \A a \in Adapters : task[a].waiting => ~Holds(a)

\* The z2m adapter awaits send_scene_store for a SceneCreate request with
\* the store guard in its hands.
Z2mAwaitsUnderLock ==
    /\ task["z2m"].waiting
    /\ Holds("z2m")
    /\ task["z2m"].req # 0
    /\ bus[task["z2m"].req] = "SceneCreate"

\* The requests an adapter began to handle since it subscribed, in the
\* order it began them.
RECURSIVE Begun(_)
Begun(trace) ==
    IF trace = <<>> THEN <<>>
    ELSE IF Head(trace)[1] = "begin" THEN <<Head(trace)[2]>> \o Begun(Tail(trace))
    ELSE Begun(Tail(trace))

\* The receiver of adapter a got the requests sent since it subscribed, in
\* the order of the sends, each once and none left out.
InOrder(a) ==
    /\ Len(Begun(task[a].trace)) = task[a].next - task[a].first
    /\ \A i \in 1..Len(Begun(task[a].trace)) :
          Begun(task[a].trace)[i] = task[a].first + i

\* Adapter a began a request only after the one before it had returned.
OneAtATime(a) ==
    \A i \in 1..Len(task[a].trace) :
       IF i % 2 = 1
       THEN /\ task[a].trace[i][1] = "begin"
            /\ (i = Len(task[a].trace)) = (task[a].req = task[a].trace[i][2])
       ELSE task[a].trace[i] = <<"end", task[a].trace[i - 1][2]>>

LagIsFatal ==
    [][\A a \in Adapters :
          (task[a].alive /\ Len(bus) - task[a].next > BusCap)
             => /\ task'[a].next = task[a].next
                /\ Begun(task'[a].trace) = Begun(task[a].trace)
                /\ (task[a].prog = <<>> /\ task[a].req = 0
                     /\ task'[a].prog = <<>> /\ task'[a] # task[a])
                      => (~task'[a].alive /\ task'[a].err = "Lagged")]_vars

\* The HA adapter was still in its startup sync while the requests were
\* sent; at its first receive its run ended with the lag error, no request
\* handled.  The z2m adapter, which kept up, has received them all.
HassRunEndedLagged ==
    /\ task["hass"].err = "Lagged"
    /\ ~task["hass"].alive
    /\ task["hass"].trace = <<>>
    /\ Len(bus) - task["hass"].next > BusCap
    /\ task["z2m"].alive
    /\ Begun(task["z2m"].trace) = <<1, 2>>

(***************************************************************************)
(* The websocket of the HA adapter (SpecWs).                               *)
(*                                                                         *)
(* The run loop with its tick arm, the routes that connect, disconnect     *)
(* and set or clear the token, a light request whose service call can      *)
(* fail and end the run, and the service manager that starts a run again   *)
(* (the manager is outside this repository's sources: the run is started   *)
(* again on failure, with a new receiver).  SpecWsFair adds what the       *)
(* scheduling gives: the interval's tick is one of the arms select! picks  *)
(* from among the ready ones, again and again, and a pending start or      *)
(* restart is carried out.  Startup is enabled exactly while the run is    *)
(* about to start and every Startup step leaves that position, so weak     *)
(* fairness for Startup is the formula []<>(hass.pc # "start"), which is   *)
(* how it is written here.                                                 *)
(***************************************************************************)

\* put_token / delete_token: the runtime state holds a token or none.
PutToken ==
    /\ ~rt.token
    /\ rt' = [rt EXCEPT !.token = TRUE]
    /\ HCommit(HBegin, "put_token", link_bridge)
    /\ UNCHANGED queue

DeleteToken ==
    /\ rt.token
    /\ rt' = [rt EXCEPT !.token = FALSE]
    /\ HCommit(HBegin, "delete_token", link_bridge)
    /\ UNCHANGED queue

\* The service manager starts the run again after it ended: Service::run
\* subscribes anew (the requests sent to the old receiver are gone) and
\* enters event_loop; the adapter keeps its fields.
SvcRestart ==
    /\ hass.pc = "stopped"
    /\ queue' = <<>>
    /\ HCommit([HBegin EXCEPT !.hass.pc = "start"], "restart", link_bridge)
    /\ UNCHANGED rt

WsNext ==
    \/ Startup
    \/ WsTick
    \/ WsClosed
    \/ HandleHassConnect
    \/ HandleHassDisconnect
    \/ HandleHassUpsertEntity
    \/ HandleLightUpdate
    \/ PatchEntity
    \/ PostConnect
    \/ PostDisconnect
    \/ PutToken
    \/ DeleteToken
    \/ V1PutLightState
    \/ SvcRestart

SpecWs == Init /\ [][WsNext]_vars

SpecWsFair ==
    /\ SpecWs
    /\ SF_vars(WsTickWith(TRUE))
    /\ WF_vars(SvcRestart)
    /\ []<>(hass.pc # "start")

(***************************************************************************)
(* Properties of the websocket (checked under SpecWsFair)                  *)
(***************************************************************************)

\* ensure_ws_connected can go through: the flag is set and there is a token
\* for the handshake.
MayConnect == rt.enabled /\ rt.token

\* C22: an absent websocket is established again by a tick when the
\* runtime flag is enabled and Home Assistant accepts the handshake; while
\* the flag is disabled no step establishes a websocket, and only a tick
\* ever does; HassDisconnect leaves the websocket absent and the flag off.
WsReconnect ==
    /\ (~hass.ws /\ MayConnect) ~> (hass.ws \/ ~MayConnect)
    /\ [][(~hass.ws /\ hass'.ws) => (rt.enabled /\ last'.op = "ws_tick")]_vars
    /\ [](last.op = "HassDisconnect" => (~hass.ws /\ ~rt.enabled))

\* A tick has just established the websocket: the flag is enabled, the
\* handshake went through and the UI log tells it.
WsReestablished ==
    /\ last.op = "ws_tick"
    /\ hass.ws
    /\ rt.enabled
    /\ \E i \in 1..Len(uilog) : uilog[i] = "Realtime state sync connected"


(***************************************************************************)
(* SpecPersist: the store operations that change what the state file       *)
(* holds, each in a lock scope of its own: add, update, delete,            *)
(* factory_reset, aux_set, and the scene creation of the z2m adapter,      *)
(* which calls aux_set, sends the scene to the backend and then adds it.   *)
(***************************************************************************)
PersistAdds == {p \in StoreAdds : p[1] \in {lR, lD1, lL1, lSc}}

\* The scene indices callers hand to aux_set.
PersistIds == {1, 2}

PersistAdd ==
    \E p \in PersistAdds :
        Commit(StAdd(StBegin(res, aux), p[1], p[2]), "add", p[1])

PersistDelete ==
    \E p \in PersistAdds :
        Commit(StDelete(StBegin(res, aux), p[1]), "delete", p[1])

\* Resources::aux_set called on its own.
PersistAuxSet ==
    \E sid \in PersistIds :
        Commit(StAuxSetIndex(StBegin(res, aux), lSc, sid), "aux_set", lSc)

\* z2m backend_scene_create: aux_set, send_scene_store(..).await?, add.
\* `sent` tells whether the websocket took the message.
Z2mSceneCreate ==
    \E sid \in PersistIds, sent \in BOOLEAN :
        LET S1 == StAuxSetIndex(StBegin(res, aux), lSc, sid)
            S2 == IF sent THEN S1 ELSE StFail(S1, "WebSocketError")
        IN  Commit(StAdd(S2, lSc, Scene(lR, {lL1, lL2})), "scene_create", lSc)

PersistNext ==
    PersistAdd \/ StoreUpdate \/ PersistDelete \/ StoreFactoryReset
    \/ PersistAuxSet \/ Z2mSceneCreate

SpecPersist == StoreInit /\ [][PersistNext]_vars

\* C23: every operation that changes the persisted state (the resources or
\* the AuxData) has woken the state persister by the time it returns.
PersisterWake ==
    [][(res' # res \/ aux' # aux) => woke']_vars

\* The same, for the operations other than aux_set: add, update, delete and
\* factory_reset wake the persister whenever they change the state.
PersisterWakeButAux ==
    [][(res' # res \/ aux' # aux) /\ last'.op \notin {"aux_set", "scene_create"}
          => woke']_vars

\* C23 witness: the z2m adapter recorded the index of a new scene, the send
\* to the backend failed, and the handler returned without a wake and with
\* no scene stored.
AuxSetWithoutWake ==
    /\ last.op = "scene_create" /\ last.err = "WebSocketError"
    /\ ~woke /\ emitted = <<>>
    /\ lSc.rid \in DOMAIN aux /\ lSc.rid \notin DOMAIN res


(***************************************************************************)
(* SpecPatina: the patina score of the UI state (model/hass.rs).  The      *)
(* state is the installation's age in days as patina_days_since_install    *)
(* reads it off the clock, the interaction counter, and the last answer    *)
(* of patina_public; they are kept in `last`.                              *)
(***************************************************************************)
Min(a, b) == IF a < b THEN a ELSE b

\* HassUiState::patina_public: (level, stage) for an age in days and an
\* interaction count.  Both quotients are u64 divisions; neither fits of
\* u8::try_from can fail, and the counter is far below u64::MAX here.
PatinaPublic(days_since_install, interaction_count) ==
    LET days == Min(days_since_install, 365)
        age_component == (days * 20) \div 365
        interaction_component == (Min(interaction_count, 5000) * 80) \div 5000
        level == Min(age_component + interaction_component, 100)
    IN  [level |-> level,
         stage |-> IF level >= 71 THEN "Loved"
                   ELSE IF level >= 26 THEN "Used" ELSE "Fresh"]

\* The weight record_patina_event gives to a kind of event.
PatinaWeight(kind) ==
    CASE kind = "toggle" -> 2
      [] kind = "apply" -> 4
      [] kind = "sync" -> 3
      [] kind = "reset" -> 5
      [] OTHER -> 1

\* Bound: the events recorded in a run.
MaxPatinaEvents == 1

\* The ages and counters a run starts from.
PatinaDays == {0, 9, 10, 18, 19, 30, 182, 183, 364, 365, 366, 1000}
PatinaCounts == {0, 31, 32, 1000, 1593, 1594, 4375, 4968, 4969, 5000, 5001, 70000}
PatinaKinds == {"toggle", "apply", "sync", "reset", "other"}

PatinaInit ==
    /\ StreamIdle
    /\ BusIdle
    /\ AdapterIdle
    /\ res = CoreRes
    /\ aux = EmptyRes
    /\ emitted = <<>>
    /\ woke = FALSE
    /\ \E d \in PatinaDays, c \in PatinaCounts :
          last = [op |-> "init", days |-> d, count |-> c, events |-> 0,
                  level |-> 0, stage |-> "Fresh"]

PatinaFrame == UNCHANGED <<res, aux, emitted, woke, streamVars, adapterVars, busVars>>

\* GET of the patina: patina_public on the current state.
PatinaQuery ==
    /\ last' = [last EXCEPT !.op = "patina_public",
                            !.level = PatinaPublic(last.days, last.count).level,
                            !.stage = PatinaPublic(last.days, last.count).stage]
    /\ PatinaFrame

\* record_patina_event(kind, _)
RecordPatinaEvent ==
    \E kind \in PatinaKinds :
        /\ last.events < MaxPatinaEvents
        /\ last' = [last EXCEPT !.op = "record_patina_event",
                                !.count = @ + PatinaWeight(kind),
                                !.events = @ + 1]
        /\ PatinaFrame

PatinaNext == PatinaQuery \/ RecordPatinaEvent

SpecPatina == PatinaInit /\ [][PatinaNext]_vars

\* a / b rounded to the nearest integer (halves up), for a >= 0, b > 0.
RoundDiv(a, b) == (2 * a + b) \div (2 * b)

PatinaStageOf(level) ==
    IF level < 26 THEN "Fresh" ELSE IF level < 71 THEN "Used" ELSE "Loved"

\* C24: patina_public returns level = min(100, round(d*20/365) +
\* min(80, round(c*80/5000))) with d = min(365, days since install) and
\* c = interaction_count, both quotients rounded to nearest, and the stage
\* Fresh below 26, Used below 71, Loved from 71 on.
PatinaLevelRounded ==
    last.op = "patina_public" =>
        LET d == Min(365, last.days)
            level == Min(100, RoundDiv(d * 20, 365)
                              + Min(80, RoundDiv(last.count * 80, 5000)))
        IN  /\ last.level = level
            /\ last.stage = PatinaStageOf(level)

\* What patina_public computes instead: both quotients rounded down.
PatinaLevelFloored ==
    last.op = "patina_public" =>
        LET d == Min(365, last.days)
            level == Min(100, (d * 20) \div 365
                              + Min(80, (last.count * 80) \div 5000))
        IN  /\ last.level = level
            /\ last.stage = PatinaStageOf(level)

\* C24 witness: 30 days after the installation, with 1000 interactions
\* counted, patina_public answers level 17 (1 + 16), stage Fresh.
PatinaScenarioF ==
    /\ last.op = "patina_public"
    /\ last.days = 30 /\ last.count = 1000
    /\ last.level = 17 /\ last.stage = "Fresh"


(***************************************************************************)
(* SpecLight: the translation of a Hue LightUpdate into Home Assistant     *)
(* service calls (backend_light_update).  A binding and an update are      *)
(* drawn, and the translation leaves the calls it made in `last`.          *)
(* Optional fields are sets with at most one element.  A brightness is     *)
(* held in hundredths of a percent (5000 is 50.0), a transition as the     *)
(* milliseconds that the code divides by 1000.                             *)
(***************************************************************************)
\* The same with the product truncated instead of rounded.
BriValueTruncated(h) ==
    IF h < 0 THEN [neg_zero |-> TRUE, val |-> 0]
    ELSE [neg_zero |-> FALSE, val |-> Min((h * 255) \div 10000, 255)]

\* (dim.brightness * 255.0 / 100.0).round().clamp(0.0, 255.0), for a
\* brightness in hundredths: round() rounds halves away from zero; a product
\* in (-0.5, 0] rounds to negative zero, which clamp leaves as it is.
BriValue(h) ==
    LET twice == 2 * h * 255
    IN  IF twice <= -10000 THEN [neg_zero |-> FALSE, val |-> 0]
        ELSE IF h < 0 THEN [neg_zero |-> TRUE, val |-> 0]
        ELSE [neg_zero |-> FALSE, val |-> Min((twice + 10000) \div 20000, 255)]

\* format!("{bri_value:.0}"): the sign and the digits.
BriFormat(v) == [sign |-> IF v.neg_zero THEN "-" ELSE "", digits |-> v.val]

\* .parse::<u16>().ok().map_or(0, |x| x.min(255))
BriParse(f) ==
    IF f.sign = "-" \/ f.digits > 65535 THEN 0 ELSE Min(f.digits, 255)

Bri(h) == BriParse(BriFormat(BriValue(h)))

\* backend_light_update, HassEntityKind::Light: the data map of turn_on.
LightData(binding, upd) ==
    LET caps == binding.capabilities
        bri == IF caps.supports_brightness /\ upd.dimming # {}
               THEN [k \in {"brightness"} |-> Bri(CHOOSE b \in upd.dimming : TRUE)]
               ELSE EmptyMap
        mirek == UNION {ct.mirek : ct \in upd.color_temperature}
        ct == IF caps.supports_color_temp /\ mirek # {}
              THEN [k \in {"color_temp"} |-> CHOOSE m \in mirek : TRUE]
              ELSE EmptyMap
        xy == IF caps.supports_color /\ upd.color # {}
              THEN [k \in {"xy_color"} |-> CHOOSE c \in upd.color : TRUE]
              ELSE EmptyMap
        duration == UNION {d.duration : d \in upd.dynamics}
        tr == IF duration # {}
              THEN [k \in {"transition"} |->
                       [ms |-> CHOOSE d \in duration : TRUE, per |-> 1000]]
              ELSE EmptyMap
    IN  bri @@ ct @@ xy @@ tr

HaService(domain, service, data) ==
    [domain |-> domain, service |-> service, data |-> data]

\* backend_light_update with the turn_off arm falling through to turn_on.
LightCallsNoReturn(binding, upd) ==
    CASE binding.kind = "Light" ->
            (IF upd.on = {FALSE}
             THEN <<HaService("light", "turn_off", EmptyMap)>> ELSE <<>>)
            \o (IF upd.on = {TRUE} \/ DOMAIN LightData(binding, upd) # {}
                THEN <<HaService("light", "turn_on", LightData(binding, upd))>>
                ELSE <<>>)
      [] binding.kind = "Switch" ->
            IF upd.on = {} THEN <<>>
            ELSE <<HaService("switch",
                             IF upd.on = {TRUE} THEN "turn_on" ELSE "turn_off",
                             EmptyMap)>>
      [] OTHER -> <<>>

\* backend_light_update: the calls made to Home Assistant, in order.
LightCalls(binding, upd) ==
    CASE binding.kind = "Light" ->
            IF upd.on = {FALSE}
            THEN <<HaService("light", "turn_off", EmptyMap)>>
            ELSE IF upd.on = {TRUE} \/ DOMAIN LightData(binding, upd) # {}
            THEN <<HaService("light", "turn_on", LightData(binding, upd))>>
            ELSE <<>>
      [] binding.kind = "Switch" ->
            IF upd.on = {} THEN <<>>
            ELSE <<HaService("switch",
                             IF upd.on = {TRUE} THEN "turn_on" ELSE "turn_off",
                             EmptyMap)>>
      [] OTHER -> <<>>

\* The inputs: bindings of every kind and capability triple, updates with
\* each field absent or present.
LightBindings ==
    {[kind |-> "Light", capabilities |-> c] :
        c \in [supports_brightness : BOOLEAN, supports_color : BOOLEAN,
               supports_color_temp : BOOLEAN]}
    \cup {[kind |-> k, capabilities |-> NoCapabilities] : k \in {"Switch", "BinarySensor"}}
Opt(S) == {{}} \cup {{x} : x \in S}
Brightnesses == {-500, -1, 0, 19, 20, 1000, 5000, 10000, 12000}
HueLightUpdates ==
    [on : Opt(BOOLEAN),
     dimming : Opt(Brightnesses),
     color_temperature : Opt([mirek : Opt({300})]),
     color : Opt({<<3127, 3290>>}),
     dynamics : Opt([duration : Opt({400})])]

LightInit ==
    /\ StreamIdle
    /\ BusIdle
    /\ AdapterIdle
    /\ res = CoreRes
    /\ aux = EmptyRes
    /\ emitted = <<>>
    /\ woke = FALSE
    /\ \E b \in LightBindings, u \in HueLightUpdates :
          last = [op |-> "init", binding |-> b, upd |-> u, calls |-> <<>>]

\* backend_light_update(binding, upd)
LightUpdateCall ==
    /\ last.op = "init"
    /\ last' = [last EXCEPT !.op = "backend_light_update",
                            !.calls = LightCalls(last.binding, last.upd)]
    /\ UNCHANGED <<res, aux, emitted, woke, streamVars, adapterVars, busVars>>

LightNext == LightUpdateCall

SpecLight == LightInit /\ [][LightNext]_vars

\* The data fields the update and the binding give rise to.
DataProduced(binding, upd) ==
    \/ binding.capabilities.supports_brightness /\ upd.dimming # {}
    \/ binding.capabilities.supports_color_temp
         /\ \E ct \in upd.color_temperature : ct.mirek # {}
    \/ binding.capabilities.supports_color /\ upd.color # {}
    \/ \E d \in upd.dynamics : d.duration # {}

\* C25: for a Light entity, an update with on.on == false makes exactly one
\* call, light.turn_off with an empty data map, whatever else it carries;
\* otherwise exactly one light.turn_on is made if on.on == true or a data
\* field was produced, and no call at all if neither holds.
LightCommandTranslation ==
    (last.op = "backend_light_update" /\ last.binding.kind = "Light") =>
        IF last.upd.on = {FALSE}
        THEN /\ Len(last.calls) = 1
             /\ last.calls[1].domain = "light" /\ last.calls[1].service = "turn_off"
             /\ DOMAIN last.calls[1].data = {}
        ELSE IF last.upd.on = {TRUE} \/ DataProduced(last.binding, last.upd)
        THEN /\ Len(last.calls) = 1
             /\ last.calls[1].domain = "light" /\ last.calls[1].service = "turn_on"
             /\ (DOMAIN last.calls[1].data # {}) <=> DataProduced(last.binding, last.upd)
        ELSE last.calls = <<>>

\* C25 witness: an update that turns the light off and carries a brightness,
\* a colour and a transition for a light that supports them all: the one
\* call is turn_off with no data.
TurnOffDropsTheRest ==
    /\ last.op = "backend_light_update" /\ last.binding.kind = "Light"
    /\ last.binding.capabilities.supports_brightness
    /\ last.binding.capabilities.supports_color
    /\ last.upd.on = {FALSE} /\ last.upd.dimming = {5000}
    /\ last.upd.color # {} /\ last.upd.dynamics = {[duration |-> {400}]}
    /\ Len(last.calls) = 1 /\ last.calls[1].service = "turn_off"


\* round(b * 255 / 100) clamped to 0..255, for b in hundredths of a percent.
ScaledBrightness(h) ==
    IF h <= 0 THEN 0 ELSE Min(RoundDiv(h * 255, 10000), 255)

TurnOnWithBrightness(h) ==
    /\ Len(last.calls) = 1
    /\ last.calls[1].domain = "light" /\ last.calls[1].service = "turn_on"
    /\ "brightness" \in DOMAIN last.calls[1].data
    /\ last.calls[1].data["brightness"] = ScaledBrightness(h)

\* C26 as stated: every LightUpdate carrying dimming.brightness = b for a
\* Home Assistant light yields a turn_on payload with brightness =
\* round(b*255/100) clamped to 0..255, whatever the light's capability flags.
BrightnessAlwaysSent ==
    (last.op = "backend_light_update" /\ last.binding.kind = "Light") =>
        \A h \in last.upd.dimming : TurnOnWithBrightness(h)

\* C26: a LightUpdate that does not turn the light off and carries
\* dimming.brightness = b, for a light recorded with supports_brightness,
\* yields a turn_on payload with brightness = round(b*255/100) clamped to
\* 0..255.
BrightnessScaling ==
    (/\ last.op = "backend_light_update" /\ last.binding.kind = "Light"
     /\ last.binding.capabilities.supports_brightness
     /\ last.upd.on # {FALSE}) =>
        \A h \in last.upd.dimming : TurnOnWithBrightness(h)

\* C26 witness: brightness 50.0 alone, for a dimmable light: turn_on with
\* brightness 128 and nothing else.
HalfBrightness ==
    /\ last.op = "backend_light_update" /\ last.binding.kind = "Light"
    /\ last.binding.capabilities.supports_brightness
    /\ last.upd.on = {} /\ last.upd.dimming = {5000}
    /\ Len(last.calls) = 1 /\ last.calls[1].service = "turn_on"
    /\ last.calls[1].data = [k \in {"brightness"} |-> 128]


(***************************************************************************)
(* SpecButton: the link button of AppState (server/appstate.rs).  The      *)
(* deadline linkbutton_until is an optional instant behind a mutex;        *)
(* `clock` is the monotonic clock Instant::now() reads.  A press reads     *)
(* the clock with the mutex held; a query reads it first and takes the     *)
(* mutex afterwards, so other callers may come in between.  The state is   *)
(* kept in `last`: the deadline, the clock readings of the queries that    *)
(* wait for the mutex, and what the last call did (`before` is the         *)
(* deadline it found).                                                     *)
(***************************************************************************)
\* Bound: the instants of a behaviour.
MaxButtonClock == 3

\* The durations callers press with, and the callers that query.
PressDurations == {1, 3}
Queriers == {"q1", "q2"}

\* press_linkbutton: `*lock = Some(Instant::now() + active_for)`
PressLinkbutton(until, now, active_for) == {now + active_for}

\* linkbutton_active with `until >= now` for the first arm.
LinkbuttonActiveAtDeadline(until, now) ==
    IF \E u \in until : u >= now
    THEN [result |-> TRUE, until |-> until]
    ELSE [result |-> FALSE, until |-> {}]

\* linkbutton_active once the mutex is held: the answer and the deadline
\* it leaves.
LinkbuttonActive(until, now) ==
    IF \E u \in until : u > now
    THEN [result |-> TRUE, until |-> until]
    ELSE [result |-> FALSE, until |-> {}]

ButtonInit ==
    /\ StreamIdle
    /\ BusIdle
    /\ AdapterIdle
    /\ res = CoreRes
    /\ aux = EmptyRes
    /\ emitted = <<>>
    /\ woke = FALSE
    /\ last = [op |-> "init", until |-> {}, reading |-> [q \in Queriers |-> {}],
               now |-> 0, result |-> FALSE, before |-> {}]

ButtonFrame ==
    UNCHANGED <<res, aux, emitted, woke, streamVars, busVars,
                ui, rt, hass, queue, uilog, hacalls, ha>>

\* Time passes.
ButtonTick ==
    /\ clock < MaxButtonClock
    /\ clock' = clock + 1
    /\ last' = [last EXCEPT !.op = "tick"]
    /\ ButtonFrame

\* press_linkbutton(active_for)
ButtonPress ==
    \E d \in PressDurations :
        /\ last' = [last EXCEPT !.op = "press", !.now = clock,
                                !.before = last.until,
                                !.until = PressLinkbutton(last.until, clock, d)]
        /\ UNCHANGED clock
        /\ ButtonFrame

\* linkbutton_active: `let now = Instant::now();`
ButtonQueryBegin ==
    \E q \in Queriers :
        /\ last.reading[q] = {}
        /\ last' = [last EXCEPT !.op = "read_clock", !.reading[q] = {clock}]
        /\ UNCHANGED clock
        /\ ButtonFrame

\* linkbutton_active: the mutex is taken and the deadline looked at.
ButtonQueryEnd ==
    \E q \in Queriers :
        /\ last.reading[q] # {}
        /\ LET now == CHOOSE t \in last.reading[q] : TRUE
               r == LinkbuttonActive(last.until, now)
           IN  last' = [last EXCEPT !.op = "linkbutton_active", !.now = now,
                                    !.reading[q] = {}, !.before = last.until,
                                    !.result = r.result, !.until = r.until]
        /\ UNCHANGED clock
        /\ ButtonFrame

ButtonNext == ButtonTick \/ ButtonPress \/ ButtonQueryBegin \/ ButtonQueryEnd

SpecButton == ButtonInit /\ [][ButtonNext]_vars

\* C27: a press with duration d at time t sets the deadline to t + d,
\* whatever deadline was there (also a later one); a query that read the
\* clock at `now` answers true iff a deadline is set and lies after now; a
\* query answering false leaves no deadline, one answering true leaves it as
\* it is; and a deadline, once cleared, stays cleared until the next press,
\* so that every query in between answers false.
Linkbutton ==
    /\ [][last'.op = "press" =>
             \E d \in PressDurations : last'.until = {clock + d}]_vars
    /\ [][last'.op = "linkbutton_active" =>
             /\ last'.result <=> (\E u \in last.until : u > last'.now)
             /\ last'.until = IF last'.result THEN last.until ELSE {}]_vars
    /\ [][(last.until = {} /\ last'.op # "press") =>
             (last'.until = {} /\ (last'.op = "linkbutton_active" => ~last'.result))]_vars

\* C27 witness: a query that read the clock at 1 found the deadline 1,
\* answered false and cleared it, while another caller, which read the clock
\* at 0, still waits for the mutex.
LinkbuttonExpired ==
    /\ last.op = "linkbutton_active" /\ last.now = 1 /\ clock = 1
    /\ last.before = {1} /\ ~last.result /\ last.until = {}
    /\ \E q \in Queriers : last.reading[q] = {0}


(***************************************************************************)
(* SpecCore: ensure_core_bridge_resources, the patch AppState applies to   *)
(* the store it loaded.  The store starts as a state file may have left    *)
(* it: any part of the core bridge resources, the bridge Device with or    *)
(* without the link to the InternetConnectivity service.                   *)
(***************************************************************************)
\* ensure_core_bridge_resources with the InternetConnectivity added anew on
\* every run.
EnsureCoreAlwaysAdd(S) ==
    IF link_bridge_dev.rid \notin DOMAIN S.res THEN S
    ELSE StTryUpdate(StAddOverwrite(S, link_ic,
                                    Owned("internet_connectivity", link_bridge_dev)),
                     link_bridge_dev.rid, "device",
                     [f |-> "extend_services", links |-> {link_ic}])

\* Resources::ensure_core_bridge_resources
EnsureCoreBridgeResources(S) ==
    IF link_bridge_dev.rid \notin DOMAIN S.res THEN S
    ELSE LET S1 == IF link_ic.rid \notin DOMAIN S.res
                   THEN StAdd(S, link_ic,
                              Owned("internet_connectivity", link_bridge_dev))
                   ELSE S
         IN  StTryUpdate(S1, link_bridge_dev.rid, "device",
                         [f |-> "extend_services", links |-> {link_ic}])

\* Bound: the runs of ensure_core_bridge_resources in a row.
MaxEnsureRuns == 2

\* The stores a state file of an older version may hold.
LoadedStores ==
    {[x \in ids |->
        IF x = link_bridge_dev.rid THEN Device(services) ELSE CoreRes[x]] :
        ids \in SUBSET DOMAIN CoreRes,
        services \in {{link_bridge, link_zbc, link_bridge_ent, link_zbdd},
                      {link_bridge, link_zbc, link_ic, link_bridge_ent, link_zbdd}}}

CoreInit ==
    /\ StreamIdle
    /\ BusIdle
    /\ AdapterIdle
    /\ res \in LoadedStores
    /\ aux = EmptyRes
    /\ emitted = <<>>
    /\ woke = FALSE
    /\ last = [op |-> "init", link |-> link_bridge, err |-> "ok", runs |-> 0]

CoreCommit(S, op, link, runs) ==
    /\ res' = S.res
    /\ aux' = S.aux
    /\ emitted' = S.ev
    /\ woke' = S.woke
    /\ last' = [op |-> op, link |-> link, err |-> S.err, runs |-> runs]
    /\ UNCHANGED <<streamVars, adapterVars, busVars>>

\* AppState::from_config: res.ensure_core_bridge_resources(bridge_id)
EnsureCore ==
    /\ last.runs < MaxEnsureRuns
    /\ CoreCommit(EnsureCoreBridgeResources(StBegin(res, aux)),
                  "ensure_core_bridge_resources", link_bridge_dev, last.runs + 1)

\* A core resource is deleted between two runs.
CoreDelete ==
    \E link \in {link_ic, link_bridge_dev} :
        CoreCommit(StDelete(StBegin(res, aux), link), "delete", link, 0)

CoreNext == EnsureCore \/ CoreDelete

SpecCore == CoreInit /\ [][CoreNext]_vars

\* C28: a run of ensure_core_bridge_resources on the state the run before it
\* produced changes no resource and emits no event; and a run on a store
\* without the bridge Device changes nothing at all.
EnsureCoreIdempotent ==
    [][last'.op = "ensure_core_bridge_resources" =>
          /\ last.op = "ensure_core_bridge_resources" =>
                (res' = res /\ emitted' = <<>> /\ ~woke' /\ last'.err = "ok")
          /\ link_bridge_dev.rid \notin DOMAIN res =>
                (res' = res /\ aux' = aux /\ emitted' = <<>> /\ ~woke'
                   /\ last'.err = "ok")]_vars

\* C28 witness: the second run in a row, on a store that holds the
\* InternetConnectivity and the bridge Device linking to it but not the
\* bridge itself: nothing emitted.
EnsuredTwice ==
    /\ last.op = "ensure_core_bridge_resources" /\ last.runs = 2
    /\ link_ic.rid \in DOMAIN res
    /\ link_ic \in res[link_bridge_dev.rid].services
    /\ link_bridge.rid \notin DOMAIN res
    /\ emitted = <<>>


(***************************************************************************)
(* SpecIdent: RType::deterministic computed as the code computes it        *)
(* (crates/hue/src/api/resource.rs): SipHash-1-3 of the type's tag number  *)
(* and of the key, the two hashes as the name of a UUIDv5 under the OID    *)
(* namespace.  Bytes are integers 0..255, words are tuples of 16-bit       *)
(* limbs with the least significant first.  An operator that uses its      *)
(* argument more than once takes it through Bind, so that the argument is  *)
(* computed once.                                                          *)
(***************************************************************************)
\* F applied to the value of x.
Bind(x, F(_)) == CHOOSE r \in {F(y) : y \in {x}} : TRUE

(* 16-bit arithmetic: the bitwise operations go through tables of nibbles. *)
RECURSIVE Pow2(_)
Pow2(n) == IF n = 0 THEN 1 ELSE 2 * Pow2(n - 1)

Bit(a, i) == (a \div Pow2(i)) % 2
XorNibble == [a \in 0..15, b \in 0..15 |->
                 ((Bit(a, 0) + Bit(b, 0)) % 2) + 2 * ((Bit(a, 1) + Bit(b, 1)) % 2)
                 + 4 * ((Bit(a, 2) + Bit(b, 2)) % 2) + 8 * ((Bit(a, 3) + Bit(b, 3)) % 2)]
AndNibble == [a \in 0..15, b \in 0..15 |->
                 (Bit(a, 0) * Bit(b, 0)) + 2 * (Bit(a, 1) * Bit(b, 1))
                 + 4 * (Bit(a, 2) * Bit(b, 2)) + 8 * (Bit(a, 3) * Bit(b, 3))]
Nibbles(T, a, b) ==
    T[a % 16, b % 16] + 16 * T[(a \div 16) % 16, (b \div 16) % 16]
    + 256 * T[(a \div 256) % 16, (b \div 256) % 16]
    + 4096 * T[a \div 4096, b \div 4096]

\* Words are tuples of 16-bit limbs, least significant first.
WXor(x, y) == [i \in 1..Len(x) |-> Nibbles(XorNibble, x[i], y[i])]
WAnd(x, y) == [i \in 1..Len(x) |-> Nibbles(AndNibble, x[i], y[i])]
WNot(x) == [i \in 1..Len(x) |-> 65535 - x[i]]
RECURSIVE CarryInto(_, _, _)
CarryInto(x, y, i) == IF i = 0 THEN 0 ELSE (x[i] + y[i] + CarryInto(x, y, i - 1)) \div 65536
WAdd(x, y) == [i \in 1..Len(x) |-> (x[i] + y[i] + CarryInto(x, y, i - 1)) % 65536]
LimbAt(x, i) == x[((i - 1) % Len(x)) + 1]
Rotl(x, n) ==
    [i \in 1..Len(x) |->
        ((LimbAt(x, i - (n \div 16) + Len(x)) * Pow2(n % 16)) % 65536)
        + (LimbAt(x, i - (n \div 16) - 1 + Len(x)) \div Pow2(16 - (n % 16)))]

\* SipHash: the state is <<v0, v1, v2, v3>>, words of four limbs.  One
\* SipRound, in the order of its assignments.
SipStep1(v) == <<WAdd(v[1], v[2]), Rotl(v[2], 13), v[3], v[4]>>
SipStep2(v) == <<Rotl(v[1], 32), WXor(v[2], v[1]), v[3], v[4]>>
SipStep3(v) == <<v[1], v[2], WAdd(v[3], v[4]), Rotl(v[4], 16)>>
SipStep4(v) == <<v[1], v[2], v[3], WXor(v[4], v[3])>>
SipStep5(v) == <<WAdd(v[1], v[4]), v[2], v[3], Rotl(v[4], 21)>>
SipStep6(v) == <<v[1], v[2], v[3], WXor(v[4], v[1])>>
SipStep7(v) == <<v[1], Rotl(v[2], 17), WAdd(v[3], v[2]), v[4]>>
SipStep8(v) == <<v[1], WXor(v[2], v[3]), Rotl(v[3], 32), v[4]>>
SipRound(v) == Bind(Bind(Bind(Bind(Bind(Bind(Bind(Bind(v, SipStep1), SipStep2), SipStep3), SipStep4), SipStep5), SipStep6), SipStep7), SipStep8)
\* c_rounds = 1: v3 ^= m; SipRound; v0 ^= m
XorM(v, m, i) == [v EXCEPT ![i] = WXor(@, m)]
SipCompress(v, m) == Bind(Bind(Bind(v, LAMBDA u : XorM(u, m, 4)), SipRound), LAMBDA u : XorM(u, m, 1))
RECURSIVE SipAbsorb(_, _, _)
SipAbsorb(v, ms, j) ==
    IF j > Len(ms) THEN v
    ELSE Bind(SipCompress(v, ms[j]), LAMBDA u : SipAbsorb(u, ms, j + 1))
\* The last block: the tail bytes, zeros, and the length mod 256 on top.
Zeros(n) == [i \in 1..n |-> 0]
SipPad(bytes) == bytes \o Zeros(7 - (Len(bytes) % 8)) \o <<Len(bytes) % 256>>
LeWord(bytes, k, n) == [i \in 1..n |-> bytes[k + 2 * i - 1] + 256 * bytes[k + 2 * i]]
SipBlocks(bytes) == [j \in 1..(Len(bytes) \div 8) |-> LeWord(bytes, 8 * (j - 1), 4)]
\* SipHasher13::new(): the keys are 0, so the state starts as the constants
\* "somepseudorandomlygeneratedbytes".
SipInit == << <<25973, 28787, 28005, 29551>>, <<28525, 28260, 29281, 25711>>,
              <<29281, 28261, 26469, 27769>>, <<25971, 31092, 25698, 29797>> >>
SipFinish(v) == WXor(WXor(v[1], v[2]), WXor(v[3], v[4]))
\* SipHasher13 over the bytes written to it: d_rounds = 3 after v2 ^= 0xff.
SipHash13(bytes) ==
    Bind(Bind(Bind(Bind(Bind(Bind(Bind(Bind(bytes, SipPad), SipBlocks),
                                  LAMBDA ms : SipAbsorb(SipInit, ms, 1)),
                             LAMBDA u : XorM(u, <<255, 0, 0, 0>>, 3)),
                        SipRound), SipRound), SipRound), SipFinish)
LeBytes(w) == [i \in 1..(2 * Len(w)) |-> IF i % 2 = 1 THEN (w[(i + 1) \div 2] % 256) ELSE (w[i \div 2] \div 256)]


\* F applied to the values of x and y.
Strict2(x, y, F(_, _)) == CHOOSE r \in {F(a, b) : a \in {x}, b \in {y}} : TRUE
XorW(x, y) == Strict2(x, y, WXor)
AndW(x, y) == Strict2(x, y, WAnd)
AddW(x, y) == Strict2(x, y, WAdd)
OrW(x, y) == Strict2(x, y, LAMBDA a, b : [i \in 1..Len(a) |-> a[i] + b[i] - Nibbles(AndNibble, a[i], b[i])])
RotW(x, n) == Bind(x, LAMBDA a : Rotl(a, n))

\* SHA-1 of a message of at most 55 bytes (one block); words of two limbs;
\* the rounds are counted from 1.
Sha1Pad(msg) ==
    msg \o <<128>> \o Zeros(55 - Len(msg))
        \o <<0, 0, 0, 0, 0, 0, (8 * Len(msg)) \div 256, (8 * Len(msg)) % 256>>
BeWord(bytes, k) == <<256 * bytes[k + 3] + bytes[k + 4], 256 * bytes[k + 1] + bytes[k + 2]>>
RECURSIVE Schedule(_, _, _)
Schedule(W, lo, hi) ==
    IF lo = hi
    THEN Append(W, RotW(XorW(XorW(W[lo - 3], W[lo - 8]), XorW(W[lo - 14], W[lo - 16])), 1))
    ELSE Strict2(Schedule(W, lo, (lo + hi) \div 2), (lo + hi) \div 2,
                 LAMBDA V, mid : Schedule(V, mid + 1, hi))
Sha1F(t, b, c, d) ==
    IF t <= 20 THEN OrW(AndW(b, c), AndW(WNot(b), d))
    ELSE IF t <= 40 THEN XorW(XorW(b, c), d)
    ELSE IF t <= 60 THEN OrW(OrW(AndW(b, c), AndW(b, d)), AndW(c, d))
    ELSE XorW(XorW(b, c), d)
Sha1K(t) ==
    IF t <= 20 THEN <<31129, 23170>>
    ELSE IF t <= 40 THEN <<60321, 28377>>
    ELSE IF t <= 60 THEN <<48348, 36635>>
    ELSE <<49622, 51810>>
Sha1Step(s, w, t) ==
    <<AddW(AddW(AddW(RotW(s[1], 5), Sha1F(t, s[2], s[3], s[4])), AddW(s[5], Sha1K(t))), w),
      s[1], RotW(s[2], 30), s[3], s[4]>>
RECURSIVE Sha1Rounds(_, _, _, _)
Sha1Rounds(s, W, lo, hi) ==
    IF lo = hi THEN Sha1Step(s, W[lo], lo)
    ELSE Strict2(Sha1Rounds(s, W, lo, (lo + hi) \div 2), (lo + hi) \div 2,
                 LAMBDA u, mid : Sha1Rounds(u, W, mid + 1, hi))
Sha1Init == << <<8961, 26437>>, <<43913, 61389>>, <<56574, 39098>>, <<21622, 4146>>, <<57840, 50130>> >>
BeBytes(w) == <<w[2] \div 256, w[2] % 256, w[1] \div 256, w[1] % 256>>
Sha1Block(W) ==
    Bind(Sha1Rounds(Sha1Init, W, 1, 80),
         LAMBDA s : BeBytes(WAdd(Sha1Init[1], s[1])) \o BeBytes(WAdd(Sha1Init[2], s[2]))
                    \o BeBytes(WAdd(Sha1Init[3], s[3])) \o BeBytes(WAdd(Sha1Init[4], s[4]))
                    \o BeBytes(WAdd(Sha1Init[5], s[5])))
Sha1(msg) ==
    Bind(Bind(Bind(Bind(msg, Sha1Pad), LAMBDA p : [j \in 1..16 |-> BeWord(p, 4 * (j - 1))]),
              LAMBDA W : Schedule(W, 17, 80)),
         Sha1Block)
\* Uuid::NAMESPACE_OID = 6ba7b812-9dad-11d1-80b4-00c04fd430c8
NAMESPACE_OID == <<107, 167, 184, 18, 157, 173, 17, 209, 128, 180, 0, 192, 79, 212, 48, 200>>
\* Uuid::new_v5: the first 16 bytes of SHA-1(namespace ++ name) with the
\* version and variant bits set.
UuidV5(ns, name) ==
    Bind(Sha1(ns \o name),
         LAMBDA h : [i \in 1..16 |->
                        IF i = 7 THEN (h[i] % 16) + 80
                        ELSE IF i = 9 THEN (h[i] % 64) + 128
                        ELSE h[i]])
\* Display of a Uuid: lower-case hex, hyphenated 8-4-4-4-12.
HexDigits == <<"0", "1", "2", "3", "4", "5", "6", "7", "8", "9", "a", "b", "c", "d", "e", "f">>
HexByte(b) == HexDigits[(b \div 16) + 1] \o HexDigits[(b % 16) + 1]
RECURSIVE Hex(_, _, _)
Hex(u, i, j) == IF i > j THEN "" ELSE HexByte(u[i]) \o Hex(u, i + 1, j)
Hyphenated(uuid) ==
    Bind(uuid, LAMBDA u :
        Hex(u, 1, 4) \o "-" \o Hex(u, 5, 6) \o "-" \o Hex(u, 7, 8) \o "-"
        \o Hex(u, 9, 10) \o "-" \o Hex(u, 11, 16))
\* u64::hash: the eight bytes of the index (here below 256), little-endian.
U64(n) == <<n, 0, 0, 0, 0, 0, 0, 0>>
\* `[h1.to_le_bytes(), h2.to_le_bytes()].concat()`; str::hash writes the
\* bytes of the key and then 0xff.
Seed(index, key) ==
    Strict2(SipHash13(U64(index)), SipHash13(key \o <<255>>),
            LAMBDA h1, h2 : LeBytes(h1) \o LeBytes(h2))
\* RType::deterministic(data).rid for the type with tag number `index`.
DeterministicRid(index, key) == Hyphenated(UuidV5(NAMESPACE_OID, Seed(index, key)))

\* The variants of RType under their serialized names.
RTypes ==
    {"auth_v1", "behavior_instance", "behavior_script", "bridge",
     "bridge_home", "button", "camera_motion", "contact", "device",
     "device_power", "device_software_update", "entertainment",
     "entertainment_configuration", "geofence_client", "geolocation",
     "grouped_light", "grouped_light_level", "grouped_motion", "homekit",
     "internet_connectivity", "light", "light_level", "matter",
     "matter_fabric", "motion", "private_group", "public_image",
     "relative_rotary", "room", "scene", "service_group", "smart_scene",
     "taurus_7455", "tamper", "temperature", "zgp_connectivity",
     "zigbee_connectivity", "zigbee_device_discovery", "zone"}

\* The position of a variant in the declaration of the enum.
RTypeOrdinal(t) ==
    CASE t = "auth_v1" -> 0
      [] t = "behavior_instance" -> 1
      [] t = "behavior_script" -> 2
      [] t = "bridge" -> 3
      [] t = "bridge_home" -> 4
      [] t = "button" -> 5
      [] t = "camera_motion" -> 6
      [] t = "contact" -> 7
      [] t = "device" -> 8
      [] t = "device_power" -> 9
      [] t = "device_software_update" -> 10
      [] t = "entertainment" -> 11
      [] t = "entertainment_configuration" -> 12
      [] t = "geofence_client" -> 13
      [] t = "geolocation" -> 14
      [] t = "grouped_light" -> 15
      [] t = "grouped_light_level" -> 16
      [] t = "grouped_motion" -> 17
      [] t = "homekit" -> 18
      [] t = "internet_connectivity" -> 19
      [] t = "light" -> 20
      [] t = "light_level" -> 21
      [] t = "matter" -> 22
      [] t = "matter_fabric" -> 23
      [] t = "motion" -> 24
      [] t = "private_group" -> 25
      [] t = "public_image" -> 26
      [] t = "relative_rotary" -> 27
      [] t = "room" -> 28
      [] t = "scene" -> 29
      [] t = "service_group" -> 30
      [] t = "smart_scene" -> 31
      [] t = "taurus_7455" -> 32
      [] t = "tamper" -> 33
      [] t = "temperature" -> 34
      [] t = "zgp_connectivity" -> 35
      [] t = "zigbee_connectivity" -> 36
      [] t = "zigbee_device_discovery" -> 37
      [] t = "zone" -> 38

\* impl Hash for RType: the number hashed for a variant.
RTypeIndex(t) ==
    CASE t = "auth_v1" -> 0
      [] t = "behavior_instance" -> 1
      [] t = "behavior_script" -> 2
      [] t = "bridge" -> 3
      [] t = "bridge_home" -> 4
      [] t = "button" -> 5
      [] t = "camera_motion" -> 32
      [] t = "contact" -> 33
      [] t = "device" -> 6
      [] t = "device_power" -> 7
      [] t = "device_software_update" -> 8
      [] t = "entertainment" -> 9
      [] t = "entertainment_configuration" -> 10
      [] t = "geofence_client" -> 11
      [] t = "geolocation" -> 12
      [] t = "grouped_light" -> 13
      [] t = "grouped_light_level" -> 14
      [] t = "grouped_motion" -> 15
      [] t = "homekit" -> 16
      [] t = "internet_connectivity" -> 38
      [] t = "light" -> 17
      [] t = "light_level" -> 18
      [] t = "matter" -> 19
      [] t = "matter_fabric" -> 34
      [] t = "motion" -> 20
      [] t = "private_group" -> 21
      [] t = "public_image" -> 22
      [] t = "relative_rotary" -> 23
      [] t = "room" -> 24
      [] t = "scene" -> 25
      [] t = "service_group" -> 35
      [] t = "smart_scene" -> 26
      [] t = "taurus_7455" -> 27
      [] t = "tamper" -> 36
      [] t = "temperature" -> 28
      [] t = "zgp_connectivity" -> 37
      [] t = "zigbee_connectivity" -> 29
      [] t = "zigbee_device_discovery" -> 30
      [] t = "zone" -> 31

\* The keys: "foo" and "bar" as the bytes of their UTF-8 encoding.
KeyFoo == <<102, 111, 111>>
KeyBar == <<98, 97, 114>>
IdentKeys == {KeyFoo, KeyBar}

\* The ids the tests of the crate list for the key "foo".
ListedIds ==
    [t \in {"auth_v1", "device", "light", "room", "grouped_light", "scene", "zone"} |->
        CASE t = "auth_v1" -> "9c9dc594-12c4-5db8-bc01-3bd26c09cf0f"
          [] t = "device" -> "fa83ad4c-fbd8-519c-b543-d7aaf2041c75"
          [] t = "light" -> "020d5289-53f8-5051-ac97-7ea60043223e"
          [] t = "room" -> "03585677-7f50-5379-b7a6-8c4d70d63c67"
          [] t = "grouped_light" -> "b2126c4a-16e3-59f4-b11f-4c674c9130f5"
          [] t = "scene" -> "02808610-c1ec-5774-8eaf-453b83cf1981"
          [] t = "zone" -> "1cc85d96-7bb6-5e75-938c-df4207136480"]

\* A caller holds a type and a key; the types of the first call are those
\* with a listed id.
IdentInit ==
    /\ StreamIdle
    /\ BusIdle
    /\ AdapterIdle
    /\ res = CoreRes
    /\ aux = EmptyRes
    /\ emitted = <<>>
    /\ woke = FALSE
    /\ \E t \in DOMAIN ListedIds, k \in IdentKeys :
          last = [op |-> "init", rtype |-> t, key |-> k, rid |-> "", before |-> {}]

IdentFrame == UNCHANGED <<res, aux, emitted, woke, streamVars, adapterVars, busVars>>

\* RType::deterministic(key) on the type and key in hand.
Derive ==
    /\ last.op = "init"
    /\ last' = [last EXCEPT !.op = "deterministic",
                            !.rid = DeterministicRid(RTypeIndex(last.rtype), last.key)]
    /\ IdentFrame

\* A second call: the same pair again, or a pair that differs from the
\* first in the type only or in the key only.
DeriveAgain ==
    /\ last.op = "deterministic" /\ last.before = {}
    /\ \E t \in RTypes, k \in IdentKeys :
          /\ t = last.rtype \/ k = last.key
          /\ last' = [op |-> "deterministic", rtype |-> t, key |-> k,
                      rid |-> DeterministicRid(RTypeIndex(t), k),
                      before |-> {[rtype |-> last.rtype, key |-> last.key,
                                   rid |-> last.rid]}]
    /\ IdentFrame

IdentNext == Derive \/ DeriveAgain

SpecIdent == IdentInit /\ [][IdentNext]_vars

\* C29: deterministic(type, key) gives the same id for the same pair, another
\* id when only the key or only the type differs, and for the key "foo" the
\* ids listed for AuthV1, Device, Light, Room, GroupedLight, Scene and Zone.
DeterministicIdentity ==
    last.op = "deterministic" =>
        /\ (last.key = KeyFoo /\ last.rtype \in DOMAIN ListedIds)
              => last.rid = ListedIds[last.rtype]
        /\ \A b \in last.before :
              (b.rid = last.rid) <=> (b.rtype = last.rtype /\ b.key = last.key)

\* C29 witness: Room with "foo" gave 03585677-..., and InternetConnectivity,
\* whose tag number 38 is not its place in the enum, gave another id for
\* the same key.
RoomThenInternetConnectivity ==
    /\ last.op = "deterministic" /\ last.rtype = "internet_connectivity"
    /\ last.key = KeyFoo
    /\ last.rid = "168d0613-3b65-56a8-8e12-ee8dd063ebcb"
    /\ \E b \in last.before :
          /\ b.rtype = "room" /\ b.key = KeyFoo
          /\ b.rid = "03585677-7f50-5379-b7a6-8c4d70d63c67"


(***************************************************************************)
(* SpecRuntime: the runtime connection document of Home Assistant          *)
(* (HassRuntimeState in model/hass.rs): {enabled, url, sync_mode, token}.  *)
(* Texts are tuples of characters; the token is optional.  The document    *)
(* and the answer of the last call are kept in `last`.                     *)
(***************************************************************************)
Manual == <<"m", "a", "n", "u", "a", "l">>

\* public_config with the token reported as present whenever it is Some.
PublicConfigIsSome(config) ==
    [enabled |-> config.enabled, url |-> config.url, sync_mode |-> config.sync_mode,
     token_present |-> config.token # {}]

\* HassRuntimeState::public_config
PublicConfig(config) ==
    [enabled |-> config.enabled, url |-> config.url, sync_mode |-> config.sync_mode,
     token_present |-> \E x \in config.token : Trim(x) # <<>>]

\* HassRuntimeState::set_config_update
SetConfigUpdate(config, update) ==
    [config EXCEPT !.enabled = update.enabled,
                   !.url = Trim(update.url),
                   !.sync_mode = IF \A x \in update.sync_mode : Trim(x) = <<>>
                                 THEN Manual
                                 ELSE Trim(CHOOSE x \in update.sync_mode : TRUE)]

\* HassRuntimeState::set_token: the new document, or the error.
SetToken(config, token) ==
    IF Trim(token) = <<>>
    THEN [err |-> "ServiceError: HASS token cannot be empty", config |-> config]
    ELSE [err |-> "ok", config |-> [config EXCEPT !.token = {Trim(token)}]]

\* HassRuntimeState::clear_token
ClearToken(config) == [config EXCEPT !.token = {}]

\* The texts of tokens, urls and sync modes that files and requests carry.
TokenTexts == {<<>>, <<" ">>, <<"a">>, <<"b">>, <<" ", "a">>, <<"a", "b", " ">>}
UrlTexts == {<<>>, <<"h">>, <<" ", "h">>}
ModeTexts == {<<>>, <<" ">>, <<"a", " ">>}
RuntimeUpdates ==
    [enabled : BOOLEAN, url : UrlTexts, sync_mode : Opt(ModeTexts)]

\* The document as HassRuntimeState::load read it: the token as the file
\* has it.
RuntimeInit ==
    /\ StreamIdle
    /\ BusIdle
    /\ AdapterIdle
    /\ res = CoreRes
    /\ aux = EmptyRes
    /\ emitted = <<>>
    /\ woke = FALSE
    /\ \E e \in BOOLEAN, t \in Opt(TokenTexts) :
          last = [op |-> "init", err |-> "ok",
                  config |-> [enabled |-> e, url |-> <<"h">>, sync_mode |-> Manual,
                              token |-> t],
                  public |-> {}]

RuntimeFrame == UNCHANGED <<res, aux, emitted, woke, streamVars, adapterVars, busVars>>

\* GET of the runtime document: public_config
RuntimeGet ==
    /\ last' = [last EXCEPT !.op = "public_config", !.err = "ok",
                            !.public = {PublicConfig(last.config)}]
    /\ RuntimeFrame

RuntimePut ==
    \E update \in RuntimeUpdates :
        /\ last' = [last EXCEPT !.op = "set_config_update", !.err = "ok",
                                !.config = SetConfigUpdate(last.config, update)]
        /\ RuntimeFrame

RuntimeSetToken ==
    \E token \in TokenTexts :
        /\ last' = [last EXCEPT !.op = "set_token",
                                !.err = SetToken(last.config, token).err,
                                !.config = SetToken(last.config, token).config]
        /\ RuntimeFrame

RuntimeClearToken ==
    /\ last' = [last EXCEPT !.op = "clear_token", !.err = "ok",
                            !.config = ClearToken(last.config)]
    /\ RuntimeFrame

RuntimeNext == RuntimeGet \/ RuntimePut \/ RuntimeSetToken \/ RuntimeClearToken

SpecRuntime == RuntimeInit /\ [][RuntimeNext]_vars

NonBlank(text) == Trim(text) # <<>>

\* C30: public_config returns enabled, url and sync_mode as they are stored
\* and token_present = (the token is set and not blank); and the answer is
\* the same for every document that differs from the stored one only in the
\* value of its non-blank token.
TokenConfidentiality ==
    last.op = "public_config" =>
        \A p \in last.public :
            /\ p.enabled = last.config.enabled
            /\ p.url = last.config.url
            /\ p.sync_mode = last.config.sync_mode
            /\ p.token_present <=> (\E x \in last.config.token : NonBlank(x))
            /\ DOMAIN p = {"enabled", "url", "sync_mode", "token_present"}
            /\ \A x \in last.config.token, y \in TokenTexts :
                  (NonBlank(x) /\ NonBlank(y))
                     => PublicConfig([last.config EXCEPT !.token = {y}]) = p

\* C30 witness: the document holds the token "ab " as the file had it, and
\* the answer says only that a token is present.
TokenOnlyReportedPresent ==
    /\ last.op = "public_config"
    /\ last.config.token = {<<"a", "b", " ">>}
    /\ last.public = {[enabled |-> last.config.enabled, url |-> <<>>,
                       sync_mode |-> Manual, token_present |-> TRUE]}

(***************************************************************************)
(* Scene recall.  A SceneUpdate sent on the bus reaches every adapter:     *)
(* the z2m adapter (backend/z2m/backend_event.rs, backend_scene_update)    *)
(* and the Home Assistant adapter (backend/hass/backend_event.rs,          *)
(* backend_scene_update) each handle it from their own receiver.  The      *)
(* z2m adapter maps room A to a topic (rmap); room B has none.  bus holds  *)
(* the requests sent, task[a].next the number adapter a has received.      *)
(***************************************************************************)
MaxRecalls == 2

RecallScenes == {SceneLink("A", "1"), SceneLink("A", "2"), SceneLink("B", "1")}
RecallRoom(link) == RoomLink(link.rid[2])
Z2mTopics == {RoomLink("A")}
RecallActions == {"active", "static"}

\* Resources::get_scenes_for_room
GetScenesForRoom(r, id) ==
    {k \in DOMAIN r : r[k].rtype = "scene" /\ r[k].group.rid = id}

\* `for rid in scenes { lock.update::<Scene>(&rid, |scn| scn.status = ..)?; }`
RECURSIVE SetStatusEach(_, _, _)
SetStatusEach(S, rids, link) ==
    IF rids = <<>> \/ ~StOk(S) THEN S
    ELSE SetStatusEach(
             StTryUpdate(S, Head(rids), "scene",
                         [f |-> "scene_status",
                          active |-> IF Head(rids) = link.rid THEN "static"
                                     ELSE "inactive"]),
             Tail(rids), link)

\* Z2mBackend::backend_scene_update with recall.action = Active, up to
\* drop(lock): the scene, its index, then the statuses of the room's scenes.
Z2mSceneStatuses(S, link) ==
    IF ~Present(S.res, link) THEN StFail(S, "NotFound")
    ELSE IF link.rid \notin DOMAIN S.aux THEN StFail(S, "AuxNotFound")
    ELSE IF S.aux[link.rid].index = {} THEN StFail(S, "NotFound")
    ELSE SetStatusEach(S, SetToSeq(GetScenesForRoom(S.res, S.res[link.rid].group.rid)),
                       link)

\* HassBackend::backend_scene_update with recall.action Active or Static:
\* the recalled scene is marked, the other scenes are not visited.
HassSceneStatus(S, link) ==
    StTryUpdate(S, link.rid, "scene", [f |-> "scene_recall"])

RecallInit ==
    /\ StreamIdle
    /\ AdapterIdle
    /\ res = CoreRes /\ aux = EmptyRes /\ emitted = <<>> /\ woke = FALSE
    /\ bus = <<>>
    /\ mutex = "free"
    /\ task = [a \in Adapters |-> [TaskDown EXCEPT !.alive = TRUE]]
    /\ last = [op |-> "init", link |-> link_bridge, err |-> "ok"]

RecallStore(S, op, link) ==
    /\ res' = S.res
    /\ aux' = S.aux
    /\ emitted' = S.ev
    /\ woke' = S.woke
    /\ last' = [op |-> op, link |-> link, err |-> S.err]
    /\ UNCHANGED <<streamVars, adapterVars>>

\* backend_scene_create of either adapter, handled as soon as it was sent:
\* aux_set with the index, then add.
RecallSceneCreate ==
    \E link \in RecallScenes :
        /\ mutex = "free"
        /\ link.rid \notin DOMAIN res
        /\ RecallStore(StAdd(StAuxSetIndex(StBegin(res, aux), link,
                                           GetNextSceneId(res, aux, RecallRoom(link)).val),
                             link, Scene(RecallRoom(link), {})),
                       "scene_create", link)
        /\ UNCHANGED busVars

\* A route sends the recall of a stored scene (backend_request).
RecallSend ==
    \E link \in RecallScenes, action \in RecallActions :
        /\ mutex = "free"
        /\ Present(res, link)
        /\ Len(bus) < MaxRecalls
        /\ bus' = Append(bus, [t |-> "SceneUpdate", link |-> link, action |-> action])
        /\ RecallStore(StBegin(res, aux), "send", link)
        /\ UNCHANGED <<mutex, task>>

Due(a) == task[a].alive /\ task[a].prog = <<>> /\ task[a].next < Len(bus)
NextRequest(a) == bus[task[a].next + 1]

\* The z2m adapter after the first guard is dropped: with a topic for the
\* room it goes on to learn_scene_recall and send_scene_recall, without
\* one (or with another recall action) the handler returns Ok.
Z2mAfterStatuses(S, req) ==
    /\ RecallStore(S, "z2m_scene_update", req.link)
    /\ task' = [task EXCEPT !["z2m"] =
                   [@ EXCEPT !.next = @ + 1,
                             !.alive = StOk(S),
                             !.err = S.err,
                             !.prog = IF StOk(S) /\ req.action = "active"
                                         /\ RecallRoom(req.link) \in Z2mTopics
                                      THEN <<"lock", "io?">> ELSE <<>>]]
    /\ UNCHANGED <<bus, mutex>>

\* handle_backend_event of the z2m adapter, BackendRequest::SceneUpdate
Z2mSceneUpdate ==
    /\ Due("z2m")
    /\ mutex = "free"
    /\ Z2mAfterStatuses(IF NextRequest("z2m").action = "active"
                        THEN Z2mSceneStatuses(StBegin(res, aux), NextRequest("z2m").link)
                        ELSE StBegin(res, aux),
                        NextRequest("z2m"))

\* `let mut lock = self.state.lock().await;` before learn_scene_recall
Z2mRelock ==
    /\ task["z2m"].prog # <<>> /\ Head(task["z2m"].prog) = "lock"
    /\ mutex = "free"
    /\ mutex' = "z2m"
    /\ task' = [task EXCEPT !["z2m"] = [@ EXCEPT !.prog = Tail(@)]]
    /\ UNCHANGED <<bus, storeVars, streamVars, adapterVars>>

\* learn_scene_recall(link, &mut lock)? and send_scene_recall(..).await?:
\* an error of either ends the run; the store is as the statuses left it.
Z2mSendRecall ==
    /\ task["z2m"].prog # <<>> /\ Head(task["z2m"].prog) = "io?"
    /\ mutex = "z2m"
    /\ mutex' = "free"
    /\ \E ok \in BOOLEAN :
          /\ task' = [task EXCEPT !["z2m"] =
                         [@ EXCEPT !.prog = <<>>, !.alive = ok,
                                   !.err = IF ok THEN "ok" ELSE "WebSocketError"]]
          /\ RecallStore(IF ok THEN StBegin(res, aux)
                         ELSE StFail(StBegin(res, aux), "WebSocketError"),
                         "z2m_send_scene_recall", bus[task["z2m"].next].link)
    /\ UNCHANGED bus

\* handle_backend_event of the HA adapter, BackendRequest::SceneUpdate: no
\* entity is imported, so backend_scene_recall finds no binding to call.
HassAfterStatus(S, req) ==
    /\ RecallStore(S, "hass_scene_update", req.link)
    /\ task' = [task EXCEPT !["hass"] =
                   [@ EXCEPT !.next = @ + 1, !.alive = StOk(S), !.err = S.err]]
    /\ UNCHANGED <<bus, mutex>>

HassSceneUpdate ==
    /\ Due("hass")
    /\ mutex = "free"
    /\ HassAfterStatus(HassSceneStatus(StBegin(res, aux), NextRequest("hass").link),
                       NextRequest("hass"))

RecallNext ==
    \/ RecallSceneCreate
    \/ RecallSend
    \/ Z2mSceneUpdate
    \/ Z2mRelock
    \/ Z2mSendRecall
    \/ HassSceneUpdate

SpecRecall == RecallInit /\ [][RecallNext]_vars

(***************************************************************************)
(* Properties of the scene recall (checked under SpecRecall)               *)
(***************************************************************************)
StaticScenes(r, room) ==
    {k \in GetScenesForRoom(r, room.rid) : r[k].status = {"static"}}

\* The z2m handler has just dropped its first guard in the recall of
\* last.link; what it does after that writes nothing to the store.
Z2mRecalled ==
    /\ last.op = "z2m_scene_update"
    /\ last.err = "ok"
    /\ bus[task["z2m"].next].action = "active"

\* Every recall that was sent had recall.action = Active and has been
\* handled by the adapters that run.
RecallsHandled ==
    /\ \A i \in 1..Len(bus) : bus[i].action = "active"
    /\ \A a \in Adapters :
          task[a].alive => (task[a].next = Len(bus) /\ task[a].prog = <<>>)

\* C31: when the z2m adapter has handled SceneUpdate(link) with
\* recall.action = Active, the recalled scene is Static and every other
\* scene of its group is Inactive; once the recalls sent are handled at
\* most one scene of a room is Static; the z2m handler leaves the scenes
\* of other rooms alone.
SceneRecallExclusive ==
    /\ [](Z2mRecalled =>
            /\ res[last.link.rid].status = {"static"}
            /\ \A k \in GetScenesForRoom(res, RecallRoom(last.link).rid) \ {last.link.rid} :
                  res[k].status = {"inactive"})
    /\ [](RecallsHandled =>
            \A room \in SceneRooms :
               Cardinality(StaticScenes(res, RoomLink(room))) <= 1)
    /\ [][last'.op \in {"z2m_scene_update", "z2m_send_scene_recall"} =>
            \A k \in DOMAIN res :
               (res[k].rtype = "scene" /\ res[k].group # RecallRoom(last'.link))
                  => (k \in DOMAIN res' /\ res'[k] = res[k])]_vars
    /\ [][last'.op = "z2m_send_scene_recall" => res' = res]_vars

\* While the HA adapter has handled no SceneUpdate, the z2m adapter alone
\* keeps at most one scene of a room Static.
SceneRecallExclusiveZ2mAlone ==
    [](task["hass"].next = 0 =>
         \A room \in SceneRooms : Cardinality(StaticScenes(res, RoomLink(room))) <= 1)

\* Both adapters have handled the recalls of the two scenes of room A, the
\* HA adapter last: both scenes of the room are Static.
TwoStaticScenes ==
    /\ RecallsHandled
    /\ task["z2m"].alive /\ task["hass"].alive
    /\ bus = <<[t |-> "SceneUpdate", link |-> SceneLink("A", "1"), action |-> "active"],
               [t |-> "SceneUpdate", link |-> SceneLink("A", "2"), action |-> "active"]>>
    /\ last.op = "hass_scene_update"
    /\ StaticScenes(res, RoomLink("A")) = {SceneLink("A", "1").rid, SceneLink("A", "2").rid}

(***************************************************************************)
(* Entertainment streams of the z2m adapter (backend/z2m/backend_event.rs, *)
(* backend_entertainment_start / _frame / _stop).  The store holds two     *)
(* lights and two entertainment configurations; `streaming` is what        *)
(* Light::is_streaming and EntertainmentConfiguration::is_streaming        *)
(* report.  The entertainment service, which is outside the core, marks    *)
(* the resources of a session and sends EntertainmentStart; it sends       *)
(* EntertainmentStop when the session ends.  last.entstream tells whether  *)
(* the adapter's entstream is Some.                                        *)
(***************************************************************************)
MaxEntRequests == 3

EntLights == {lL1, lL2}

EntLight(owner) == [rtype |-> "light", owner |-> owner, streaming |-> FALSE]
EntConfiguration(lights) ==
    [rtype |-> "entertainment_configuration", locations |-> lights,
     channels |-> {lights}, light_services |-> lights, streaming |-> FALSE]

lE2 == Deterministic("entertainment_configuration", <<"e2">>)
EntConfigurations == {lE, lE2}

EntRes ==
    (lL1.rid :> EntLight(lD1)) @@ (lL2.rid :> EntLight(lD2))
    @@ (lE.rid :> EntConfiguration({lL1}))
    @@ (lE2.rid :> EntConfiguration({lL1, lL2})) @@ CoreRes

IsStreaming(r, T) == {id \in DOMAIN r : r[id].rtype = T /\ r[id].streaming}

\* The two loops of backend_entertainment_stop (and reset_all_streaming):
\* stop_streaming on every Light, then on every EntertainmentConfiguration,
\* that is_streaming.
StopAllStreaming(S) ==
    StUpdateEach(
        StUpdateEach(S, SetToSeq(IsStreaming(S.res, "light")), [f |-> "stop_streaming"]),
        SetToSeq(IsStreaming(S.res, "entertainment_configuration")),
        [f |-> "stop_streaming"])

\* backend_entertainment_stop: with a stream, entstream.take(), then
\* stop_stream(z2mws).await? and the two loops; without one, nothing.
BackendEntertainmentStop(S, entstream, sent) ==
    IF ~entstream THEN S
    ELSE IF ~sent THEN StFail(S, "WebSocketError")
    ELSE StopAllStreaming(S)

\* backend_entertainment_start: the configuration and its channels are
\* looked up; with a target, start_stream(z2mws).await? and entstream is
\* set.  `targets` tells how the channels resolved against rmap/network.
BackendEntertainmentStart(S, ent, targets, sent) ==
    IF ~Present(S.res, ent) THEN StFail(S, "NotFound")
    ELSE IF targets = "unknown" THEN StFail(S, "NotFound")
    ELSE IF targets = "some" /\ ~sent THEN StFail(S, "WebSocketError")
    ELSE S

EntInit ==
    /\ StreamIdle
    /\ AdapterIdle
    /\ res = EntRes /\ aux = EmptyRes /\ emitted = <<>> /\ woke = FALSE
    /\ bus = <<>>
    /\ mutex = "free"
    /\ task = [a \in Adapters |-> [TaskDown EXCEPT !.alive = TRUE]]
    /\ last = [op |-> "init", err |-> "ok", entstream |-> FALSE, had |-> FALSE]

EntCommit(S, op, entstream) ==
    /\ res' = S.res
    /\ aux' = S.aux
    /\ emitted' = S.ev
    /\ woke' = S.woke
    /\ last' = [op |-> op, err |-> S.err, entstream |-> entstream,
                had |-> last.entstream]
    /\ UNCHANGED <<streamVars, adapterVars, mutex>>

\* The entertainment service opens a session on the configuration: the
\* configuration and its lights are marked, EntertainmentStart is sent.
EntSessionStart ==
    \E ent \in EntConfigurations :
        /\ Len(bus) < MaxEntRequests
        /\ IsStreaming(res, "entertainment_configuration") = {}
        /\ bus' = Append(bus, [t |-> "EntertainmentStart", ent |-> ent])
        /\ EntCommit(StUpdateEach(StBegin(res, aux),
                                  SetToSeq({l.rid : l \in res[ent.rid].light_services}
                                           \cup {ent.rid}),
                                  [f |-> "start_streaming"]),
                     "session_start", last.entstream)
        /\ UNCHANGED task

\* The entertainment service forwards a frame of the session.
EntSessionFrame ==
    /\ Len(bus) < MaxEntRequests
    /\ IsStreaming(res, "entertainment_configuration") # {}
    /\ bus' = Append(bus, [t |-> "EntertainmentFrame"])
    /\ EntCommit(StBegin(res, aux), "session_frame", last.entstream)
    /\ UNCHANGED task

\* The entertainment service ends a session, or a client asks for it.
EntSessionStop ==
    /\ Len(bus) < MaxEntRequests
    /\ bus' = Append(bus, [t |-> "EntertainmentStop"])
    /\ EntCommit(StBegin(res, aux), "session_stop", last.entstream)
    /\ UNCHANGED task

EntReceive(t) ==
    /\ Due("z2m")
    /\ NextRequest("z2m").t = t

EntHandled(S) ==
    task' = [task EXCEPT !["z2m"] =
                [@ EXCEPT !.next = @ + 1, !.alive = StOk(S), !.err = S.err]]

EntStarted(S, targets) ==
    /\ EntCommit(S, "EntertainmentStart",
                 IF StOk(S) /\ targets = "some" THEN TRUE ELSE last.entstream)
    /\ EntHandled(S)
    /\ UNCHANGED bus

\* handle_backend_event, BackendRequest::EntertainmentStart
Z2mEntertainmentStart ==
    /\ EntReceive("EntertainmentStart")
    /\ \E targets \in {"none", "unknown", "some"}, sent \in BOOLEAN :
          EntStarted(BackendEntertainmentStart(StBegin(res, aux), NextRequest("z2m").ent,
                                               targets, sent),
                     targets)

\* backend_entertainment_frame: with a stream and a tick of the throttle
\* the frame is sent, es.frame(..).await?.
BackendEntertainmentFrame(S, entstream, tick, sent) ==
    IF entstream /\ tick /\ ~sent THEN StFail(S, "WebSocketError") ELSE S

EntFramed(S) ==
    /\ EntCommit(S, "EntertainmentFrame", last.entstream)
    /\ EntHandled(S)
    /\ UNCHANGED bus

\* handle_backend_event, BackendRequest::EntertainmentFrame
Z2mEntertainmentFrame ==
    /\ EntReceive("EntertainmentFrame")
    /\ \E tick \in BOOLEAN, sent \in BOOLEAN :
          EntFramed(BackendEntertainmentFrame(StBegin(res, aux), last.entstream,
                                              tick, sent))

EntStopped(S) ==
    /\ EntCommit(S, "EntertainmentStop", FALSE)
    /\ EntHandled(S)
    /\ UNCHANGED bus

\* handle_backend_event, BackendRequest::EntertainmentStop
Z2mEntertainmentStop ==
    /\ EntReceive("EntertainmentStop")
    /\ \E sent \in BOOLEAN :
          EntStopped(BackendEntertainmentStop(StBegin(res, aux), last.entstream, sent))

EntNext ==
    \/ EntSessionStart
    \/ EntSessionFrame
    \/ EntSessionStop
    \/ Z2mEntertainmentStart
    \/ Z2mEntertainmentFrame
    \/ Z2mEntertainmentStop

SpecEntm == EntInit /\ [][EntNext]_vars

(***************************************************************************)
(* Properties of the entertainment stop (checked under SpecEntm)           *)
(***************************************************************************)
NothingStreams ==
    /\ IsStreaming(res, "light") = {}
    /\ IsStreaming(res, "entertainment_configuration") = {}

\* C32: after the z2m adapter has handled EntertainmentStop no Light and no
\* EntertainmentConfiguration is in streaming state and the adapter has no
\* stream, whatever was the case before and whether or not the stop was
\* sent.
EntertainmentStopRestores ==
    last.op = "EntertainmentStop" => (NothingStreams /\ ~last.entstream)

\* What the handler does achieve: it leaves the adapter without a stream,
\* and with a stream before it and the stop sent, nothing streams.
EntertainmentStopRestoresAfterStream ==
    last.op = "EntertainmentStop" =>
        /\ ~last.entstream
        /\ (last.had /\ last.err = "ok") => NothingStreams

\* The adapter had a stream, the stop could not be sent: the handler has
\* returned the error, the stream is gone and the light and the
\* configuration of the session are still marked as streaming.
StaleStreamingFlags ==
    /\ last.op = "EntertainmentStop"
    /\ last.had /\ ~last.entstream
    /\ last.err = "WebSocketError"
    /\ IsStreaming(res, "light") = {lL1.rid}
    /\ IsStreaming(res, "entertainment_configuration") = {lE.rid}

(***************************************************************************)
(* Light updates of the z2m adapter (backend/z2m/backend_event.rs,         *)
(* backend_light_update).  A LightUpdate carries Option fields; a duration *)
(* is a u32 of milliseconds, a transition a number of seconds, kept here   *)
(* as a fraction <<numerator, denominator>>; a brightness is a percentage, *)
(* the z2m brightness is kept in hundredths.  Gradients, effects and       *)
(* identify are not part of the updates modelled.                          *)
(***************************************************************************)
\* f64::from(duration) / 1000.0
DurationSeconds(duration) == <<duration, 1000>>

\* Some(0.4)
DefaultTransition == <<4, 10>>

\* The fraction t is `ms` thousandths of a second.
Milliseconds(t, ms) == t[1] * 1000 = ms * t[2]

\* The transition with `upd.on.is_some()` among the tests of the or_else.
Z2mTransitionWithOn(upd) ==
    IF upd.dynamics # {} /\ (CHOOSE d \in upd.dynamics : TRUE).duration # {}
    THEN {DurationSeconds(x) : x \in (CHOOSE d \in upd.dynamics : TRUE).duration}
    ELSE IF upd.on # {} \/ upd.dimming # {} \/ upd.color_temperature # {}
            \/ upd.color # {}
    THEN {DefaultTransition}
    ELSE {}

\* `let transition = upd.dynamics.as_ref().and_then(..).or_else(..)`
Z2mTransition(upd) ==
    IF upd.dynamics # {} /\ (CHOOSE d \in upd.dynamics : TRUE).duration # {}
    THEN {DurationSeconds(x) : x \in (CHOOSE d \in upd.dynamics : TRUE).duration}
    ELSE IF upd.dimming # {} \/ upd.color_temperature # {} \/ upd.color # {}
    THEN {DefaultTransition}
    ELSE {}

\* DeviceUpdate::default().with_state(..) .. .with_transition(transition)
Z2mPayload(upd) ==
    [state |-> upd.on,
     brightness |-> {b * 254 : b \in upd.dimming},
     color_temp |-> upd.color_temperature,
     color_xy |-> upd.color,
     transition |-> Z2mTransition(upd)]

\* backend_light_update: without a topic for the link nothing is sent; a
\* light that is not stored ends the handler before the payload is built.
Z2mBackendLightUpdate(topic, stored, upd, sent) ==
    IF ~topic THEN [err |-> "ok", sent |-> <<>>]
    ELSE IF ~stored THEN [err |-> "NotFound", sent |-> <<>>]
    ELSE IF ~sent THEN [err |-> "WebSocketError", sent |-> <<>>]
    ELSE [err |-> "ok", sent |-> <<Z2mPayload(upd)>>]

Durations == {0, 400, 1500}
Dynamics == {{}} \cup {{[duration |-> d]} : d \in Opt(Durations)}

Z2mLightUpdates ==
    [on : Opt(BOOLEAN), dimming : Opt({50}), color_temperature : Opt({366}),
     color : Opt({"xy"}), dynamics : Dynamics]

TransitionInit ==
    /\ StreamIdle /\ BusIdle /\ AdapterIdle
    /\ res = CoreRes /\ aux = EmptyRes /\ emitted = <<>> /\ woke = FALSE
    /\ last = [op |-> "init"]

\* handle_backend_event of the z2m adapter, BackendRequest::LightUpdate
Z2mLightUpdate ==
    /\ \E upd \in Z2mLightUpdates, topic \in BOOLEAN, stored \in BOOLEAN, sent \in BOOLEAN :
          last' = [op |-> "LightUpdate", upd |-> upd, topic |-> topic,
                   out |-> Z2mBackendLightUpdate(topic, stored, upd, sent)]
    /\ UNCHANGED <<res, aux, emitted, woke, streamVars, adapterVars, busVars>>

TransitionNext == Z2mLightUpdate

SpecTransition == TransitionInit /\ [][TransitionNext]_vars

(***************************************************************************)
(* Properties of the z2m transition (checked under SpecTransition)         *)
(***************************************************************************)
\* The update that was handled gives a duration.
GivenDuration ==
    UNION {d.duration : d \in last.upd.dynamics}

\* The payload of the update that was handled and sent.
SentPayload == last.out.sent[1]

\* C33 as stated: the transition sent is duration/1000 s when a duration
\* is given, otherwise 0.4 s when the update has any of on, dimming, color
\* or color_temperature, otherwise none.
TransitionAsStated ==
    (last.op = "LightUpdate" /\ last.out.sent # <<>>) =>
        /\ GivenDuration # {} =>
              \A d \in GivenDuration : \A t \in SentPayload.transition : Milliseconds(t, d)
        /\ GivenDuration # {} => SentPayload.transition # {}
        /\ (GivenDuration = {} /\ (last.upd.on # {} \/ last.upd.dimming # {}
                                   \/ last.upd.color # {}
                                   \/ last.upd.color_temperature # {}))
              => /\ SentPayload.transition # {}
                 /\ \A t \in SentPayload.transition : Milliseconds(t, 400)
        /\ (GivenDuration = {} /\ last.upd.on = {} /\ last.upd.dimming = {}
            /\ last.upd.color = {} /\ last.upd.color_temperature = {})
              => SentPayload.transition = {}

\* C33 (amended): the transition sent is duration/1000 s when a duration
\* is given, otherwise 0.4 s when the update has any of dimming, color or
\* color_temperature, otherwise (an update of `on` alone included) none.
TransitionDerivation ==
    (last.op = "LightUpdate" /\ last.out.sent # <<>>) =>
        /\ GivenDuration # {} =>
              \A d \in GivenDuration : \A t \in SentPayload.transition : Milliseconds(t, d)
        /\ GivenDuration # {} => SentPayload.transition # {}
        /\ (GivenDuration = {} /\ (last.upd.dimming # {} \/ last.upd.color # {}
                                   \/ last.upd.color_temperature # {}))
              => /\ SentPayload.transition # {}
                 /\ \A t \in SentPayload.transition : Milliseconds(t, 400)
        /\ (GivenDuration = {} /\ last.upd.dimming = {}
            /\ last.upd.color = {} /\ last.upd.color_temperature = {})
              => SentPayload.transition = {}

\* A light is switched on with nothing else in the update and no duration
\* (dynamics without one): the payload sent has the state and no
\* transition.
SwitchedOnWithoutTransition ==
    /\ last.op = "LightUpdate"
    /\ last.upd = [on |-> {TRUE}, dimming |-> {}, color_temperature |-> {},
                   color |-> {}, dynamics |-> {[duration |-> {}]}]
    /\ last.out = [err |-> "ok",
                   sent |-> <<[state |-> {TRUE}, brightness |-> {}, color_temp |-> {},
                               color_xy |-> {}, transition |-> {}]>>]

(***************************************************************************)
(* The operations of the HA adapter together: the import of SpecSync and   *)
(* the removal of one entity (import.rs, remove_entity_by_id), for the     *)
(* three entities, with Home Assistant and the UI configuration changing   *)
(* and the process restarting as in SpecSync.                              *)
(***************************************************************************)
\* What remove_entity_by_id leaves behind: `entity` is the id it was given.
RemoveCommit(H, e) ==
    /\ res' = H.st.res
    /\ aux' = H.st.aux
    /\ emitted' = H.st.ev
    /\ woke' = H.st.woke
    /\ last' = [op |-> "HassRemoveEntity", err |-> H.st.err, synced |-> {},
                again |-> FALSE, entity |-> e]
    /\ hass' = H.hass
    /\ ui' = H.ui
    /\ uilog' = H.log
    /\ hacalls' = H.calls
    /\ UNCHANGED <<streamVars, busVars, rt, queue, ha, clock>>

\* The entities that are asked to be removed: one whose service is in
\* light_map and one whose service is in sensor_map.
RemovedIds == {"light.a", "binary_sensor.c"}

\* handle_backend_event, BackendRequest::HassRemoveEntity
SyncRemove ==
    /\ hass.pc = "loop"
    /\ \E e \in RemovedIds : RemoveCommit(RemoveEntityById(HBegin, e), e)

AdapterNext ==
    \/ SyncStartup
    \/ SyncFull
    \/ SyncUpsert
    \/ SyncStateChanged
    \/ SyncUpdateRooms
    \/ SyncRemove
    \/ HaChange
    \/ UiChange
    \/ Restart

\* The adapter starts as in SpecSync, under the configuration that follows
\* the areas of Home Assistant and has a second room, which the user chose
\* for the light.
AdapterInit ==
    /\ SyncInit
    /\ ui.config.sync_hass_areas_to_rooms
    /\ "r1" \in ui.config.rooms
    /\ "light.a" \in DOMAIN ui.config.entity_preferences

SpecAdapter == AdapterInit /\ [][AdapterNext]_vars

(***************************************************************************)
(* Properties of the adapter's operations (checked under SpecAdapter)      *)
(***************************************************************************)
\* The keys of a binding map that lead to the entity.
KeysFor(map, e) == {k \in DOMAIN map : map[k] = e}

\* The adapter's maps hold nothing for the entity.
Forgotten(h, e) ==
    /\ e \notin DOMAIN h.entity_map
    /\ KeysFor(h.light_map, e) = {}
    /\ KeysFor(h.sensor_map, e) = {}
    /\ KeysFor(h.device_map, e) = {}

\* The store holds neither the Device of the entity nor anything that
\* names it as owner, and no room lists it.
Unstored(r, e) ==
    /\ DeviceLinkFor(e).rid \notin DOMAIN r
    /\ \A x \in DOMAIN r :
          /\ DeviceLinkFor(e) \notin Owner(r[x])
          /\ r[x].rtype = "room" => DeviceLinkFor(e) \notin r[x].children

\* C34: after the adapter handled HassRemoveEntity(e) the store has neither
\* the Device of e nor a resource owned by it, no room lists the Device,
\* and the four binding maps hold nothing for e; the removal of an entity
\* that is in neither store nor maps succeeds and changes neither.
RemoveEntityComplete ==
    /\ [](last.op = "HassRemoveEntity" =>
            /\ last.err = "ok"
            /\ Unstored(res, last.entity)
            /\ Forgotten(hass, last.entity))
    /\ [][(/\ last'.op = "HassRemoveEntity"
           /\ DeviceLinkFor(last'.entity).rid \notin DOMAIN res
           /\ Forgotten(hass, last'.entity))
          => (res' = res /\ hass' = hass /\ emitted' = <<>>)]_vars

\* The light was imported, with its Device in a room, and has just been
\* removed: the delete events of the Device and of the two resources it
\* owned went out.
RemovedImportedLight ==
    /\ last.op = "HassRemoveEntity"
    /\ last.entity = "light.a"
    /\ {emitted[i].rid : i \in {j \in 1..Len(emitted) : emitted[j].kind = "delete"}}
          = {DeviceLinkFor("light.a").rid,
             LinksForEntity("light.a", "light").service.rid,
             LinksForEntity("light.a", "light").zbc.rid}
    /\ \E i \in 1..Len(emitted) : emitted[i].kind = "update" /\ emitted[i].rtype = "room"

\* The operations of the adapter, as `last.op` names them.
AdapterOps ==
    {"HassSync", "HassUpsertEntity", "state_changed", "HassRemoveEntity",
     "HassUpdateRooms"}

\* The Devices in the store that were created for a Home Assistant entity.
HaDevices(r) == {d \in {DeviceLinkFor(e) : e \in SyncEntityIds} : d.rid \in DOMAIN r}

\* The rooms that list the device as a child.
RoomsListing(r, link) ==
    {x \in DOMAIN r : r[x].rtype = "room" /\ link \in r[x].children}

\* C38: after an operation of the adapter every Device of a Home Assistant
\* entity that is in the store is a child of exactly one Room.
DeviceInOneRoom ==
    last.op \in AdapterOps =>
        \A d \in HaDevices(res) : Cardinality(RoomsListing(res, d)) = 1

\* The binding maps of the adapter agree with each other.
MapsConsistent(h) ==
    /\ \A e \in DOMAIN h.entity_map :
          LET b == h.entity_map[e]
              lights == b.service_kind \in {"light", "switch"}
              here == IF lights THEN h.light_map ELSE h.sensor_map
              there == IF lights THEN h.sensor_map ELSE h.light_map
          IN  /\ b.entity_id = e
              /\ b.device_link.rid \in DOMAIN h.device_map
              /\ h.device_map[b.device_link.rid] = e
              /\ b.service_link.rid \in DOMAIN here
              /\ here[b.service_link.rid] = e
              /\ b.service_link.rid \notin DOMAIN there
    /\ \A k \in DOMAIN h.device_map : h.device_map[k] \in DOMAIN h.entity_map
    /\ \A k \in DOMAIN h.light_map : h.light_map[k] \in DOMAIN h.entity_map
    /\ \A k \in DOMAIN h.sensor_map : h.sensor_map[k] \in DOMAIN h.entity_map

\* C39: after every operation of the adapter, device_map leads from the
\* device of each binding of entity_map to its entity, exactly one of
\* light_map and sensor_map (by the kind of the service) leads from its
\* service to its entity, and the three maps hold no entry for an entity
\* that entity_map does not hold.
BindingMapsConsistent == MapsConsistent(hass)

\* A realtime update has just created the Device of an entity, and no room
\* lists it.
RoomlessDevice ==
    /\ last.op = "state_changed"
    /\ last.err = "ok"
    /\ \E d \in HaDevices(res) : RoomsListing(res, d) = {}

\* The binary sensor was imported as a motion sensor and again as a contact
\* sensor: its binding and sensor_map lead to the contact service, and all
\* three entities are bound.
MovedServiceBound ==
    /\ last.op \in {"HassUpsertEntity", "state_changed"}
    /\ DOMAIN hass.entity_map = SyncEntityIds
    /\ hass.entity_map["binary_sensor.c"].service_kind = "contact"
    /\ hass.entity_map["binary_sensor.c"].service_link.rid \in DOMAIN hass.sensor_map
    /\ Cardinality(DOMAIN hass.sensor_map) = 1
    /\ Cardinality(DOMAIN hass.light_map) = 2

(***************************************************************************)
(* SpecRooms: the UI configuration of a running bridge.  HassUiState::load *)
(* normalizes what it read; then the configuration is replaced, rooms are  *)
(* added, removed and renamed, rooms are made for areas, and entities are  *)
(* given a room or hidden.  (auto_created is carried along by the code and *)
(* read by none of these operations; it is left out.)                      *)
(***************************************************************************)
\* Bound: add_room and ensure_room_for_area are taken while the
\* configuration has fewer rooms than this.
MaxConfigRooms == 3

\* format!("{i}") for the counters of add_room and ensure_room_for_area
Decimal(i) ==
    CASE i = 2 -> <<"2">> [] i = 3 -> <<"3">> [] i = 4 -> <<"4">>
      [] i = 5 -> <<"5">> [] OTHER -> <<"6">>

\* `while ids.contains(&candidate.to_ascii_lowercase()) { candidate =
\* format!("{id}-{i}"); i += 1; }`
RECURSIVE FreeRoomId(_, _, _, _)
FreeRoomId(base, candidate, ids, i) ==
    IF Lowercase(candidate) \notin ids THEN candidate
    ELSE FreeRoomId(base, base \o <<"-">> \o Decimal(i), ids, i + 1)

\* `rooms.iter().map(|x| x.id.to_ascii_lowercase()).collect()`
LowerRoomIds(cfg) == {Lowercase(cfg.rooms[i].id) : i \in 1..Len(cfg.rooms)}

RoomText == <<"r", "o", "o", "m">>
AreaPrefix == <<"a", "r", "e", "a", "-">>

\* HassUiState::add_room
UiAddRoom(cfg, room_name) ==
    IF Trim(room_name) = <<>> THEN cfg
    ELSE LET id == IF SanitizeId(Trim(room_name)) = <<>> THEN RoomText
                   ELSE SanitizeId(Trim(room_name))
         IN  UiNormalize(
                 [cfg EXCEPT !.rooms =
                     Append(@, [id |-> FreeRoomId(id, id, LowerRoomIds(cfg), 2),
                                name |-> Trim(room_name),
                                source_area |-> {}])])

\* remove_room: the source area of the first room with the id
SourceAreaOf(rooms, room_id) ==
    IF \E i \in 1..Len(rooms) : rooms[i].id = room_id
    THEN rooms[CHOOSE i \in 1..Len(rooms) :
                   /\ rooms[i].id = room_id
                   /\ \A j \in 1..(i - 1) : rooms[j].id # room_id].source_area
    ELSE {}

\* HassUiState::remove_room
UiRemoveRoom(cfg, room_id) ==
    IF room_id = DefaultRoomIdText THEN cfg
    ELSE UiNormalize(
             [cfg EXCEPT
                 !.ignored_area_names =
                     @ \o SetToSeq(SourceAreaOf(cfg.rooms, room_id)),
                 !.rooms = SelectSeq(@, LAMBDA x : x.id # room_id),
                 !.entity_preferences =
                     [e \in DOMAIN @ |->
                         IF @[e].room_id = {room_id}
                         THEN [@[e] EXCEPT !.room_id = {}] ELSE @[e]]])

\* HassUiConfig::room_for_area: the ids of the rooms made for the area
RoomsForArea(cfg, area_name) ==
    {i \in 1..Len(cfg.rooms) :
        \E src \in cfg.rooms[i].source_area : EqIgnoreAsciiCase(src, area_name)}

\* HassUiConfig::ensure_room_for_area: the configuration it leaves and the
\* room id it returns
UiEnsureRoomForArea(cfg, area_name) ==
    IF \E i \in 1..Len(cfg.ignored_area_names) :
          EqIgnoreAsciiCase(cfg.ignored_area_names[i], area_name)
    THEN [cfg |-> cfg, room_id |-> DefaultRoomIdText]
    ELSE IF RoomsForArea(cfg, area_name) # {}
    THEN [cfg |-> cfg,
          room_id |-> cfg.rooms[CHOOSE i \in RoomsForArea(cfg, area_name) :
                                   \A j \in RoomsForArea(cfg, area_name) : i <= j].id]
    ELSE LET base == IF SanitizeId(area_name) = <<>> THEN AreaPrefix \o RoomText
                     ELSE AreaPrefix \o SanitizeId(area_name)
             room_id == FreeRoomId(base, base, LowerRoomIds(cfg), 2)
         IN  [cfg |-> UiNormalize(
                          [cfg EXCEPT !.rooms =
                              Append(@, [id |-> room_id, name |-> area_name,
                                         source_area |-> {area_name}])]),
              room_id |-> room_id]

\* The rooms of the configurations that are read or sent: a room made for
\* an area, a room whose id differs from another one's in case only, a
\* room without id and name.
AreaRoomConfigs ==
    {[id |-> AreaPrefix \o <<"k">>, name |-> <<"k">>, source_area |-> {<<"k">>}],
     [id |-> <<"K">>, name |-> <<"k">>, source_area |-> {Blank}],
     [id |-> <<"k">>, name |-> <<"L">>, source_area |-> {}],
     [id |-> <<"_">>, name |-> Blank, source_area |-> {}]}

\* The configurations that are read from disk or sent by a client.
RoomsConfigs ==
    [hidden_entity_ids : {<<>>},
     exclude_entity_ids : {<<>>},
     exclude_name_patterns : {<<>>},
     ignored_area_names : {<<Blank>>},
     include_unavailable : {TRUE},
     rooms : {<<>>} \cup {q \in AreaRoomConfigs \X AreaRoomConfigs : q[1] # q[2]},
     entity_preferences :
         {EmptyMap} \cup {(EntityA :> [NoPreference EXCEPT !.room_id = {r}]) :
                             r \in {<<"k">>, <<"K">>}},
     default_add_new_devices_to_hue : {FALSE}]

\* HassUiState::load
RoomsInit ==
    /\ StreamIdle
    /\ BusIdle
    /\ res = CoreRes /\ aux = EmptyRes /\ emitted = <<>> /\ woke = FALSE
    /\ rt = [enabled |-> TRUE, token |-> TRUE]
    /\ hass = [pc |-> "start"]
    /\ queue = <<>> /\ uilog = <<>> /\ hacalls = <<>>
    /\ ha = [states |-> {}, areas |-> EmptyMap] /\ clock = 0
    /\ \E cfg \in RoomsConfigs :
          ui = [config |-> UiNormalize(cfg), entities |-> EmptyMap,
                sync |-> "idle"]
    /\ last = [op |-> "load"]

\* HassUiState::set_config
RoomsSetConfig ==
    \E cfg \in RoomsConfigs : UiCommit(UiNormalize(cfg), [op |-> "set_config"])

\* POST /rooms
RoomsAdd ==
    /\ Len(ui.config.rooms) < MaxConfigRooms
    /\ \E name \in {<<"K", " ">>, <<"_">>, Blank} :
          UiCommit(UiAddRoom(ui.config, name),
                   [op |-> "add_room", added |-> Trim(name) # <<>>])

\* DELETE /rooms
RoomsRemove ==
    \E room_id \in {DefaultRoomIdText, <<"k">>, AreaPrefix \o <<"k">>, <<"k", "-", "2">>} :
        UiCommit(UiRemoveRoom(ui.config, room_id),
                 [op |-> "remove_room", room_id |-> room_id])

\* PUT /rooms
RoomsRename ==
    \E room_id \in {<<"k">>, <<"K">>} : \E name \in {<<"L">>, Blank} :
        UiCommit(UiRenameRoom(ui.config, room_id, name), [op |-> "rename_room"])

\* PATCH /entity with `room_id`
RoomsSetEntityRoom ==
    \E room \in {{}, {<<"k">>}, {<<"K">>}, {AreaPrefix \o <<"k">>}} :
        UiCommit(UiSetEntityRoom(ui.config, EntityA, room),
                 [op |-> "set_entity_room", asked |-> room])

\* PATCH /entity with `hidden`
RoomsSetEntityHidden ==
    \E hidden \in BOOLEAN :
        UiCommit(UiSetEntityHidden(ui.config, EntityA, hidden),
                 [op |-> "set_entity_hidden"])

\* The import finds an entity in an area.
RoomsEnsureArea ==
    /\ Len(ui.config.rooms) < MaxConfigRooms
    /\ \E area \in {<<"K">>, <<"_">>} :
          UiCommit(UiEnsureRoomForArea(ui.config, area).cfg,
                   [op |-> "ensure_room_for_area",
                    room_id |-> UiEnsureRoomForArea(ui.config, area).room_id])

RoomsNext ==
    \/ RoomsSetConfig
    \/ RoomsAdd
    \/ RoomsRemove
    \/ RoomsRename
    \/ RoomsSetEntityRoom
    \/ RoomsSetEntityHidden
    \/ RoomsEnsureArea

SpecRooms == RoomsInit /\ [][RoomsNext]_vars

\* The ids of the rooms of a configuration.
ConfigRoomIds(cfg) == {cfg.rooms[i].id : i \in 1..Len(cfg.rooms)}

\* C35: after any sequence of operations on the UI configuration the ids
\* of its rooms are non-empty and pairwise distinct, the room_id of every
\* entity preference names one of its rooms, and the default room
\* "home-assistant" is among them; remove_room on the default room leaves
\* the configuration as it was.
RoomsWellFormed ==
    /\ [](/\ \A i \in 1..Len(ui.config.rooms) :
               /\ ui.config.rooms[i].id # <<>>
               /\ \A j \in 1..Len(ui.config.rooms) :
                     ui.config.rooms[i].id = ui.config.rooms[j].id => i = j
          /\ \A e \in DOMAIN ui.config.entity_preferences :
                ui.config.entity_preferences[e].room_id
                    \subseteq ConfigRoomIds(ui.config)
          /\ DefaultRoomIdText \in ConfigRoomIds(ui.config))
    /\ [][(last'.op = "remove_room" /\ last'.room_id = DefaultRoomIdText)
          => ui' = ui]_vars

\* A second room "k" was added beside a room with that id, so it got the
\* id "k-2", and the entity's preference names the first of them.
SecondRoomNumbered ==
    /\ last.op = "add_room"
    /\ {<<"k">>, <<"k", "-", "2">>} \subseteq ConfigRoomIds(ui.config)
    /\ PrefEntry(ui.config.entity_preferences, EntityA).room_id = {<<"k">>}

(***************************************************************************)
(* SpecSensor: the enabled flag of the sensor of an imported binary        *)
(* sensor.  The adapter imports the entities at startup (a motion sensor,  *)
(* or a contact sensor when Home Assistant reports a door); then clients   *)
(* PUT the flag (routes/clip/sensor.rs), which changes the store and sends *)
(* SensorEnabledUpdate, and the adapter handles the requests in order.     *)
(***************************************************************************)
\* Bound: the SensorEnabledUpdate requests waiting for the adapter.
MaxSensorRequests == 2

\* The bodies of PUT /clip/v2/resource/{motion,contact}/{id}:
\* {"enabled": b}, {"enabled": {"enabled": b}} and a body without the key.
SensorPuts ==
    {[shape |-> sh, enabled |-> b] : sh \in {"bool", "object"}, b \in BOOLEAN}
        \cup {[shape |-> "none", enabled |-> FALSE]}

\* parse_enabled
ParseEnabled(put) == IF put.shape \in {"bool", "object"} THEN {put.enabled} ELSE {}

\* The Contact arm of put_sensor and of backend_sensor_enabled_update once
\* the resource is read: the key is rewritten in the copy, the resource is
\* deleted (`let _ =`) and the copy is added.
ContactRewrite(S, link, enabled) ==
    StAdd(StIgnore(StDelete(S, link)), link,
          [S.res[link.rid] EXCEPT !.enabled = enabled])

\* put_sensor up to backend_request
PutSensorStore(S, rlink, enabled) ==
    CASE rlink.rtype = "motion" ->
            \* get::<Motion> and update::<Motion>
            StTryUpdate(S, rlink.rid, "motion", [f |-> "set_enabled", enabled |-> enabled])
      [] rlink.rtype = "contact" ->
            IF ~Present(S.res, rlink) THEN StFail(S, "NotFound")
            ELSE ContactRewrite(S, rlink, enabled)
      [] OTHER -> StFail(S, "UpdateNotYetSupported")

\* HassUiConfig::set_entity_sensor_enabled: the preference of the entity
\* gets sensor_enabled and the configuration is normalized; a preference
\* that holds sensor_enabled is retained.
SetEntitySensorEnabled(cfg, e, enabled) ==
    [Normalize(cfg) EXCEPT !.entity_preferences =
        MapInsert(@, e, [visible |-> PrefOf(Normalize(cfg), e).visible,
                         room_id |-> PrefOf(Normalize(cfg), e).room_id,
                         sensor_enabled |-> {enabled}])]

\* backend_sensor_enabled_update, the store
SensorEnabledStore(S, binding, enabled) ==
    CASE binding.service_kind = "motion" ->
            IF Present(S.res, binding.service_link)
            THEN StTryUpdate(S, binding.service_link.rid, "motion",
                             [f |-> "set_enabled", enabled |-> enabled])
            ELSE S
      [] binding.service_kind = "contact" ->
            IF Present(S.res, binding.service_link)
            THEN ContactRewrite(S, binding.service_link, enabled)
            ELSE S
      [] OTHER -> S

\* backend_sensor_enabled_update, the end: set_entity_registry_disabled; its
\* error is logged.
RegistryDisabled(H, ok) ==
    IF ~HOk(H) THEN H
    ELSE IF ok /\ H.hass.token
    THEN [H EXCEPT !.calls = Append(@, "config/entity_registry/update")]
    ELSE UiLog(H, "HA entity registry update failed")

\* HassBackend::backend_sensor_enabled_update
BackendSensorEnabledUpdate(H, binding, enabled, ok) ==
    RegistryDisabled(
        [UiLog([H EXCEPT !.ui.config =
                    SetEntitySensorEnabled(@, binding.entity_id, enabled)],
               "Sensor enabled or disabled")
         EXCEPT !.st = SensorEnabledStore(@, binding, enabled)],
        ok)

\* What a step on a sensor leaves behind.
SensorCommit(H, op, link, enabled, requests) ==
    /\ res' = H.st.res
    /\ aux' = H.st.aux
    /\ emitted' = H.st.ev
    /\ woke' = H.st.woke
    /\ last' = [op |-> op, link |-> link, enabled |-> enabled, err |-> H.st.err]
    /\ hass' = H.hass
    /\ ui' = H.ui
    /\ uilog' = H.log
    /\ hacalls' = H.calls
    /\ queue' = requests
    /\ UNCHANGED <<streamVars, busVars, rt, ha, clock>>

\* The links a client names: the sensor of the binary sensor as a Motion
\* and as a Contact, and the light.
SensorLinks ==
    {LinksForEntity("binary_sensor.c", "motion").service,
     LinksForEntity("binary_sensor.c", "contact").service,
     LinksForEntity("light.a", "light").service}

\* put_sensor: an unparsable body and an error of the store leave the store
\* as it was and send nothing.
PutSensor ==
    /\ hass.pc = "loop"
    /\ Len(queue) < MaxSensorRequests
    /\ \E rlink \in SensorLinks : \E put \in SensorPuts :
          IF ParseEnabled(put) = {}
          THEN SensorCommit(HFail(HBegin, "UpdateNotYetSupported"), "put_sensor",
                            rlink, put.enabled, queue)
          ELSE LET S == PutSensorStore(StBegin(res, aux), rlink, put.enabled)
               IN  IF StOk(S)
                   THEN SensorCommit([HBegin EXCEPT !.st = S], "put_sensor", rlink,
                                     put.enabled,
                                     Append(queue, [link |-> rlink,
                                                    enabled |-> put.enabled]))
                   ELSE SensorCommit(HFail(HBegin, S.err), "put_sensor", rlink,
                                     put.enabled, queue)

\* handle_backend_event, BackendRequest::SensorEnabledUpdate
HassSensorEnabledUpdate ==
    /\ hass.pc = "loop"
    /\ queue # <<>>
    /\ \E ok \in BOOLEAN :
          LET req == Head(queue)
              found == LookupBinding(hass, hass.sensor_map, req.link)
          IN  IF found = {}
              THEN SensorCommit(HBegin, "SensorEnabledUpdate", req.link,
                                req.enabled, Tail(queue))
              ELSE SensorCommit(
                       BackendSensorEnabledUpdate(HBegin, CHOOSE b \in found : TRUE,
                                                  req.enabled, ok),
                       "SensorEnabledUpdate", req.link, req.enabled, Tail(queue))

SensorNext ==
    \/ SyncStartup
    \/ HaChange
    \/ PutSensor
    \/ HassSensorEnabledUpdate

SpecSensor == SyncInit /\ [][SensorNext]_vars

\* C36: a change of the enabled flag of a Contact sensor that is in the
\* store, by put_sensor or by the adapter's SensorEnabledUpdate, leaves the
\* Contact in the store with the new flag and with nothing else changed,
\* and leaves every other resource, the services of the owning Device
\* among them, as it was.
ContactEnabledOnly ==
    [][(/\ last'.op \in {"put_sensor", "SensorEnabledUpdate"}
        /\ last'.err = "ok"
        /\ last'.link.rtype = "contact"
        /\ Present(res, last'.link))
       => /\ DOMAIN res' = DOMAIN res
          /\ res'[last'.link.rid] = [res[last'.link.rid] EXCEPT
                                        !.enabled = last'.enabled]
          /\ \A x \in DOMAIN res \ {last'.link.rid} : res'[x] = res[x]]_vars

\* The flag of the Contact was set by put_sensor, the Contact is in the
\* store with the flag, and its Device no longer lists it as a service.
ContactUnlisted ==
    /\ last.op = "put_sensor"
    /\ last.err = "ok"
    /\ last.link.rtype = "contact"
    /\ Present(res, last.link)
    /\ res[last.link.rid].enabled = last.enabled
    /\ Present(res, res[last.link.rid].owner)
    /\ last.link \notin res[res[last.link.rid].owner.rid].services

\* The same change on a Motion sensor changes the flag only.
MotionEnabledOnly ==
    [][(/\ last'.op \in {"put_sensor", "SensorEnabledUpdate"}
        /\ last'.err = "ok"
        /\ last'.link.rtype = "motion"
        /\ Present(res, last'.link))
       => /\ DOMAIN res' = DOMAIN res
          /\ res'[last'.link.rid] = [res[last'.link.rid] EXCEPT
                                        !.enabled = last'.enabled]
          /\ \A x \in DOMAIN res \ {last'.link.rid} : res'[x] = res[x]]_vars

(***************************************************************************)
(* SpecNumbering: scenes are created in rooms A and B while both adapters  *)
(* run.  The route that creates a scene is not part of the sources; as the *)
(* spec has it, it takes next_scene_id(room) and sends SceneCreate(link,   *)
(* idx, Scene).  Each adapter handles the requests in the order they were  *)
(* sent: the HA adapter stores index and scene, the z2m adapter does so    *)
(* for the rooms it has a topic for (room A).                              *)
(***************************************************************************)
\* Bound: the SceneCreate requests that are sent.
MaxSceneRequests == 3

\* The link of the k-th scene that is created.
NumberedScene(k) == Deterministic("scene", <<"new", ToString(k)>>)

\* POST /clip/v2/resource/scene: the index is taken now, the request sent.
NumberingPost ==
    /\ Len(bus) < MaxSceneRequests
    /\ \E room \in SceneRooms :
          LET n == GetNextSceneId(res, aux, RoomLink(room))
              link == NumberedScene(Len(bus) + 1)
          IN  /\ n.err = "ok"
              /\ bus' = Append(bus, [t |-> "SceneCreate", link |-> link,
                                     sid |-> n.val,
                                     scene |-> Scene(RoomLink(room), {})])
              /\ last' = [op |-> "post_scene", link |-> link, err |-> "ok",
                          sid |-> n.val]
    /\ emitted' = <<>> /\ woke' = FALSE
    /\ UNCHANGED <<res, aux, mutex, task, streamVars, adapterVars>>

\* What the handling of a SceneCreate by an adapter leaves behind; an error
\* ends the adapter's run.
NumberingCommit(H, a, req) ==
    /\ res' = H.st.res
    /\ aux' = H.st.aux
    /\ emitted' = H.st.ev
    /\ woke' = H.st.woke
    /\ last' = [op |-> "SceneCreate", link |-> req.link, err |-> H.st.err,
                sid |-> req.sid]
    /\ hass' = H.hass
    /\ ui' = H.ui
    /\ uilog' = H.log
    /\ hacalls' = H.calls
    /\ task' = [task EXCEPT ![a] =
                   [@ EXCEPT !.next = @ + 1, !.alive = HOk(H), !.err = H.st.err]]
    /\ UNCHANGED <<streamVars, bus, mutex, rt, queue, ha, clock>>

\* HassBackend::handle_backend_event, BackendRequest::SceneCreate
NumberingHass ==
    /\ Due("hass")
    /\ \E ok \in BOOLEAN :
          NumberingCommit(BackendSceneCreate(HBegin, NextRequest("hass").link,
                                             NextRequest("hass").sid,
                                             NextRequest("hass").scene, ok),
                          "hass", NextRequest("hass"))

\* Z2mBackend::backend_scene_create: nothing for a room without topic; else
\* aux_set, send_scene_store(..).await?, add.
Z2mBackendSceneCreate(S, link, sid, scene, sent) ==
    IF scene.group \notin Z2mTopics THEN S
    ELSE StAdd(IF sent THEN StAuxSetIndex(S, link, sid)
               ELSE StFail(StAuxSetIndex(S, link, sid), "WebSocketError"),
               link, scene)

\* Z2mBackend::handle_backend_event, BackendRequest::SceneCreate
NumberingZ2m ==
    /\ Due("z2m")
    /\ \E sent \in BOOLEAN :
          NumberingCommit([HBegin EXCEPT !.st =
                              Z2mBackendSceneCreate(@, NextRequest("z2m").link,
                                                    NextRequest("z2m").sid,
                                                    NextRequest("z2m").scene, sent)],
                          "z2m", NextRequest("z2m"))

NumberingNext ==
    \/ NumberingPost
    \/ NumberingHass
    \/ NumberingZ2m

SpecNumbering == RecallInit /\ [][NumberingNext]_vars

\* Every adapter that runs has handled every request that was sent.
NumberingHandled == \A a \in Adapters : task[a].alive => task[a].next = Len(bus)

\* The scenes of the store that are in the room and have an index.
NumberedIn(r, a, room) ==
    {x \in DOMAIN r \cap DOMAIN a :
        r[x].rtype = "scene" /\ r[x].group = room /\ a[x].index # {}}

\* C37: however the creations of scenes in a room are interleaved (the
\* index taken by get_next_scene_id when the request is made, stored in
\* AuxData when an adapter handles SceneCreate), no two scenes of the room
\* end up with the same index.
SceneIndexUnique ==
    NumberingHandled =>
        \A room \in SceneRooms :
            \A x, y \in NumberedIn(res, aux, RoomLink(room)) :
                aux[x].index = aux[y].index => x = y

\* Two scenes of room A were requested before an adapter handled the first:
\* both are in the store with index 0.
TwoScenesOneIndex ==
    /\ NumberingHandled
    /\ Len(bus) = 2
    /\ \A i \in 1..2 : /\ bus[i].sid = 0
                       /\ bus[i].scene.group = RoomLink("A")
                       /\ Present(res, bus[i].link)
                       /\ aux[bus[i].link.rid].index = {0}

(***************************************************************************)
(* SpecRun: run_sync step by step.  mark_sync_started, sync_entities and   *)
(* mark_sync_finished are separate steps of the adapter's task (each is    *)
(* behind an await: the lock of the UI state, the requests to Home         *)
(* Assistant); the clock advances and POST /sync sends HassSync in         *)
(* between.  run_sync is called before the loop ("startup") and for each   *)
(* HassSync ("manual"); its error is logged or dropped, so the loop goes   *)
(* on after a failed sync.                                                 *)
(***************************************************************************)
\* Bound: the HassSync requests waiting for the adapter.
MaxSyncRequests == 1

\* HassSyncStatus::default()
NoSyncStatus ==
    [sync_in_progress |-> FALSE, last_sync_result |-> {}, last_sync_at |-> {},
     last_sync_duration_ms |-> {}]

\* HassUiState::mark_sync_started
MarkSyncStarted(sync, now) ==
    [sync EXCEPT !.sync_in_progress = TRUE,
                 !.last_sync_result = {<<"running">>},
                 !.last_sync_at = {now}]

\* mark_sync_finished that leaves sync_in_progress as it is on an error.
MarkSyncFinishedOnOk(sync, result, now) ==
    IF result.ok
    THEN [sync EXCEPT !.sync_in_progress = FALSE,
                      !.last_sync_at = {now},
                      !.last_sync_duration_ms = {result.duration_ms},
                      !.last_sync_result = {<<"ok">>}]
    ELSE [sync EXCEPT !.last_sync_at = {now},
                      !.last_sync_result = {<<"error: ", result.err>>}]

\* HassUiState::mark_sync_finished; format!("error: {err}") is the text
\* "error: " followed by the text of the error.
MarkSyncFinished(sync, result, now) ==
    IF result.ok
    THEN [sync EXCEPT !.sync_in_progress = FALSE,
                      !.last_sync_at = {now},
                      !.last_sync_duration_ms = {result.duration_ms},
                      !.last_sync_result = {<<"ok">>}]
    ELSE [sync EXCEPT !.sync_in_progress = FALSE,
                      !.last_sync_at = {now},
                      !.last_sync_result = {<<"error: ", result.err>>}]

\* HassBackend::new, Service::start and HassUiState::load: nothing is
\* imported, no sync has run.
RunInit ==
    /\ StreamIdle
    /\ BusIdle
    /\ ui = [config |-> [DefaultUiConfig EXCEPT !.default_add_new_devices_to_hue = TRUE],
             entities |-> EmptyMap, sync |-> NoSyncStatus]
    /\ rt = [enabled |-> TRUE, token |-> TRUE]
    /\ hass = [pc |-> "start", entity_map |-> EmptyMap, light_map |-> EmptyMap,
               device_map |-> EmptyMap, room_map |-> EmptyMap,
               sensor_map |-> EmptyMap, scene_map |-> EmptyMap,
               token |-> TRUE, ws |-> TRUE, run |-> 1,
               start |-> 0, result |-> "ok"]
    /\ queue = <<>> /\ uilog = <<>> /\ hacalls = <<>>
    /\ ha = [FirstSnapshot EXCEPT
                !.states = {st \in @ : st.entity_id = "light.a"}]
    /\ clock = 0
    /\ res = CoreRes
    /\ aux = EmptyRes /\ emitted = <<>> /\ woke = FALSE
    /\ last = [op |-> "init", err |-> "ok"]

\* run_sync up to `let start = Instant::now();`
RunSyncStarted ==
    /\ ui' = [ui EXCEPT !.sync = MarkSyncStarted(@, clock)]
    /\ uilog' = <<"Sync requested">>
    /\ hass' = [hass EXCEPT !.pc = "syncing", !.start = clock]
    /\ last' = [op |-> "mark_sync_started", err |-> "ok"]
    /\ emitted' = <<>> /\ woke' = FALSE /\ hacalls' = <<>>
    /\ UNCHANGED <<res, aux, streamVars, busVars, rt, ha, clock>>

\* event_loop, before the loop: run_sync("startup")
RunSyncStartup ==
    /\ hass.pc = "start"
    /\ RunSyncStarted
    /\ UNCHANGED queue

\* handle_backend_event, BackendRequest::HassSync: run_sync("manual")
RunSyncManual ==
    /\ hass.pc = "loop"
    /\ queue # <<>>
    /\ queue' = Tail(queue)
    /\ RunSyncStarted

\* What sync_entities leaves behind when it returns.
RunSynced(H) ==
    /\ res' = H.st.res
    /\ aux' = H.st.aux
    /\ emitted' = H.st.ev
    /\ woke' = H.st.woke
    /\ hass' = [H.hass EXCEPT !.pc = "synced", !.result = H.st.err]
    /\ ui' = H.ui
    /\ uilog' = H.log
    /\ hacalls' = H.calls
    /\ last' = [op |-> "sync_entities", err |-> H.st.err]

\* run_sync: `let result = self.sync_entities().await;` against a Home
\* Assistant that answers with an error or with its states.
RunSyncEntities ==
    /\ hass.pc = "syncing"
    /\ \/ \E H \in {SyncEntities(HBegin, [SnapshotReply EXCEPT !.ok = FALSE])} :
             RunSynced(H)
       \/ \E H \in {SyncEntities(HBegin, SnapshotReply)} : RunSynced(H)
    /\ UNCHANGED <<streamVars, busVars, rt, queue, ha, clock>>

\* run_sync from `let elapsed_u128 = start.elapsed().as_millis();` on
RunSyncFinish ==
    /\ hass.pc = "synced"
    /\ ui' = [ui EXCEPT !.sync =
                 MarkSyncFinished(@, [ok |-> hass.result = "ok",
                                      duration_ms |-> clock - hass.start,
                                      err |-> hass.result], clock)]
    /\ uilog' = <<IF hass.result = "ok" THEN "Sync completed" ELSE "Sync failed">>
    /\ hass' = [hass EXCEPT !.pc = "loop"]
    /\ last' = [op |-> "mark_sync_finished", err |-> hass.result]
    /\ emitted' = <<>> /\ woke' = FALSE /\ hacalls' = <<>>
    /\ UNCHANGED <<res, aux, streamVars, busVars, rt, queue, ha, clock>>

\* POST /sync: HassSync is sent to the adapter.
RunPostSync ==
    /\ Len(queue) < MaxSyncRequests
    /\ queue' = Append(queue, [t |-> "HassSync"])
    /\ UNCHANGED <<storeVars, streamVars, busVars, ui, rt, hass, uilog, hacalls,
                   ha, clock>>

\* Time passes while run_sync is executing.
RunTick ==
    /\ hass.pc \in {"syncing", "synced"}
    /\ clock < MaxClock
    /\ clock' = clock + 1
    /\ UNCHANGED <<storeVars, streamVars, busVars, ui, rt, hass, queue, uilog,
                   hacalls, ha>>

RunNext ==
    \/ RunSyncStartup
    \/ RunSyncManual
    \/ RunSyncEntities
    \/ RunSyncFinish
    \/ RunPostSync
    \/ RunTick

SpecRun == RunInit /\ [][RunNext]_vars

\* The task of the adapter is polled until it completes: the requests of
\* sync_entities end after the client's timeout of 10 s at the latest, and
\* the lock of the UI state is held by no one for longer than a few
\* statements.
SpecRunFair ==
    SpecRun /\ WF_vars(RunSyncEntities) /\ WF_vars(RunSyncFinish)

\* str::starts_with on a text that format! has put together
StartsWithError(result) == \E text \in result : text[1] = "error: "

\* C40: every mark_sync_started of run_sync is followed by
\* mark_sync_finished, whether the sync succeeds or fails: sync_in_progress
\* is true only while run_sync is executing and is false again in the end;
\* after a failed sync last_sync_result starts with "error:" and
\* last_sync_duration_ms is what it was.
SyncBookkeepingTerminates ==
    /\ [](ui.sync.sync_in_progress <=> hass.pc \in {"syncing", "synced"})
    /\ (ui.sync.sync_in_progress ~> ~ui.sync.sync_in_progress)
    /\ [][(last'.op = "mark_sync_finished" /\ last.op # "mark_sync_finished")
          => /\ last.op = "sync_entities"
             /\ ~ui'.sync.sync_in_progress
             /\ IF last'.err = "ok"
                THEN /\ ui'.sync.last_sync_result = {<<"ok">>}
                     /\ ui'.sync.last_sync_duration_ms = {clock - hass.start}
                ELSE /\ StartsWithError(ui'.sync.last_sync_result)
                     /\ ui'.sync.last_sync_duration_ms =
                            ui.sync.last_sync_duration_ms]_vars

\* A sync that took some time succeeded and a later one has just failed:
\* the result is an error and the duration is that of the earlier sync.
FailedAfterSuccess ==
    /\ last.op = "mark_sync_finished"
    /\ last.err # "ok"
    /\ ~ui.sync.sync_in_progress
    /\ StartsWithError(ui.sync.last_sync_result)
    /\ \E d \in ui.sync.last_sync_duration_ms : d > 0

====
